---------------------------- MODULE Spec2Model ----------------------------
(***************************************************************************)
(* Sales chatbot: natural-language question -> read-only SQL -> report.    *)
(*                                                                         *)
(* Sources modelled:                                                       *)
(*   src/agents/sales_agent.py      SalesAgent (Groq)                      *)
(*   src/database/db_connection.py  DatabaseConnection                     *)
(*   src/app.py                     get_available_companies, chat          *)
(*                                                                         *)
(* Text is modelled by TLA+ strings, which TLC treats as sequences of      *)
(* characters (Len, \o, SubSeq).  Two characters of the source cannot be   *)
(* written in a TLA+ string: the backtick of the Markdown code fence,      *)
(* written "~" here, and the emoji of the user-facing messages, each      *)
(* written as a short tag in parentheses such as "(x)" or "($)".           *)
(*                                                                         *)
(* The Ollama variant of the agent is imported by no module of the         *)
(* application; the agent modelled is the one app.py constructs.           *)
(***************************************************************************)
EXTENDS Integers, Sequences, FiniteSets, TLC

-----------------------------------------------------------------------------
(* Python str operations used by the program                               *)

At(s, i) == SubSeq(s, i, i)

\* sub in s
Contains(sub, s) ==
    \E i \in 1..(Len(s) - Len(sub) + 1) : SubSeq(s, i, i + Len(sub) - 1) = sub

Range(f) == {f[i] : i \in DOMAIN f}

\* s.startswith(p)
StartsWith(s, p) == Len(p) <= Len(s) /\ SubSeq(s, 1, Len(p)) = p

Lowercase == "abcdefghijklmnopqrstuvwxyz"
Uppercase == "ABCDEFGHIJKLMNOPQRSTUVWXYZ"

LowerLetters == {At(Lowercase, i) : i \in 1..Len(Lowercase)}

UpperLetters == {At(Uppercase, i) : i \in 1..Len(Uppercase)}

ToUpper == [c \in LowerLetters |-> At(Uppercase, CHOOSE i \in 1..Len(Lowercase) : At(Lowercase, i) = c)]

ToLower == [c \in UpperLetters |-> At(Lowercase, CHOOSE i \in 1..Len(Uppercase) : At(Uppercase, i) = c)]

UpperChar(c) == IF c \in LowerLetters THEN ToUpper[c] ELSE c

LowerChar(c) == IF c \in UpperLetters THEN ToLower[c] ELSE c

\* s.upper(), s.lower(): character by character (the recursion halves the
\* string so that its depth stays logarithmic in Len(s))
RECURSIVE Upper(_)
Upper(s) ==
    IF Len(s) = 0 THEN s
    ELSE IF Len(s) = 1 THEN UpperChar(s)
    ELSE Upper(SubSeq(s, 1, Len(s) \div 2)) \o Upper(SubSeq(s, (Len(s) \div 2) + 1, Len(s)))

RECURSIVE Lower(_)
Lower(s) ==
    IF Len(s) = 0 THEN s
    ELSE IF Len(s) = 1 THEN LowerChar(s)
    ELSE Lower(SubSeq(s, 1, Len(s) \div 2)) \o Lower(SubSeq(s, (Len(s) \div 2) + 1, Len(s)))

\* the characters str.strip() and str.split() treat as whitespace
Whitespace == {" ", "\t", "\n", "\r", "\f"}

\* s.strip()
Strip(s) ==
    LET n == Len(s)
        kept(i) == At(s, i) \notin Whitespace
    IN  IF \A i \in 1..n : ~kept(i) THEN ""
        ELSE SubSeq(s, CHOOSE i \in 1..n : kept(i) /\ \A j \in 1..(i - 1) : ~kept(j),
                       CHOOSE i \in 1..n : kept(i) /\ \A j \in (i + 1)..n : ~kept(j))

\* the least index >= from at which one of the strings of subs starts, 0 if none
FindAny(s, subs, from) ==
    LET hit(i) == \E sub \in subs :
                     /\ i + Len(sub) - 1 <= Len(s)
                     /\ SubSeq(s, i, i + Len(sub) - 1) = sub
    IN  IF \A i \in from..Len(s) : ~hit(i) THEN 0
        ELSE CHOOSE i \in from..Len(s) : hit(i) /\ \A j \in from..(i - 1) : ~hit(j)

\* s.split()[0] of a string that is not empty after strip(): its first word
FirstWord(s) ==
    LET upto(t, ws) == IF ws = 0 THEN t ELSE SubSeq(t, 1, ws - 1)
        word(t) == upto(t, FindAny(t, Whitespace, 1))
    IN  word(Strip(s))

\* [x.strip() for x in s.split(';') if x.strip()]
RECURSIVE SplitStatements(_)
SplitStatements(s) ==
    LET keep(x, rest) == IF x = "" THEN rest ELSE <<x>> \o rest
        at(semi) == IF semi = 0 THEN keep(Strip(s), <<>>)
                    ELSE keep(Strip(SubSeq(s, 1, semi - 1)),
                              SplitStatements(SubSeq(s, semi + 1, Len(s))))
    IN  at(FindAny(s, {";"}, 1))

-----------------------------------------------------------------------------
(* SalesAgent._is_safe_query and DatabaseConnection._validate_read_only     *)

VARIABLES
    forbidden_keywords,   \* SalesAgent.forbidden_keywords, set by __init__
    candidate,            \* a SQL string handed to the validator / the executor
    nfrags,               \* number of fragments candidate was built from
    kw, form,             \* the forbidden word the candidate may use, and how it is written
    phase,                \* "build", "validated", "executed"
    safe_verdict,         \* what _is_safe_query(candidate) returned
    exec_outcome          \* "none", "blocked" (_validate_read_only raised), "submitted"

VARIABLES
    pc,                   \* where the Streamlit run is: "start", "idle", "generate",
                          \* "validate", "execute", "format", "done"
    connection,           \* DatabaseConnection.connection: "none" or "open"
    available_companies,  \* what get_available_companies returned in this run
    pq_message, pq_company_id,  \* the arguments of process_query
    pq_date_context,      \* process_query's local date_context
    pq_sql_query,         \* process_query's local sql_query: [bound, none, text, source]
    pq_result,            \* process_query's local result: [none, rows]
    pq_response,          \* how process_query ended: [kind, text]
    accepted,             \* statements _is_safe_query has accepted in this run
    executed,             \* calls of db.execute_query in this run: [query, caller, reached]
    llm_calls,            \* calls of _call_groq in this request: [purpose, ok, text]
    trace                 \* the stages process_query went through, in order

VARIABLES
    rq_question,          \* a question put to _extract_date_context and _generate_sql
    rq_nphrases,          \* number of phrases rq_question was composed of
    rq_stage,             \* "compose", "resolved"
    rq_company_id,        \* the company_id the question was resolved for
    rq_date_context,      \* what _extract_date_context(rq_question) returned
    rq_generated          \* how _generate_sql ended: [raised, message, none, sql, source]

VARIABLES
    cp_sql,               \* a completion put to the synthesizer's post-processing
    cp_nparts,            \* number of parts cp_sql was composed of
    cp_stage,             \* "compose", "once", "twice"
    cp_fixed,             \* outputs of _fix_common_sql_errors: of cp_sql, then of its own output
    cp_processed          \* outputs of lines 1018-1031: of cp_sql, then of their own output

checkVars == <<candidate, nfrags, kw, form, phase, safe_verdict, exec_outcome>>

resolveVars == <<rq_question, rq_nphrases, rq_stage, rq_company_id, rq_date_context,
                 rq_generated>>

correctVars == <<cp_sql, cp_nparts, cp_stage, cp_fixed, cp_processed>>

pipeVars == <<pc, connection, available_companies, pq_message, pq_company_id, pq_date_context,
              pq_sql_query, pq_result, pq_response, accepted, executed, llm_calls, trace>>

vars == <<forbidden_keywords, candidate, nfrags, kw, form, phase, safe_verdict, exec_outcome,
          pc, connection, available_companies, pq_message, pq_company_id, pq_date_context,
          pq_sql_query, pq_result, pq_response, accepted, executed, llm_calls, trace,
          rq_question, rq_nphrases, rq_stage, rq_company_id, rq_date_context, rq_generated,
          cp_sql, cp_nparts, cp_stage, cp_fixed, cp_processed>>

\* SalesAgent.__init__
ForbiddenKeywordsInit ==
    <<"INSERT", "UPDATE", "DELETE", "DROP", "CREATE", "ALTER",
      "TRUNCATE", "REPLACE", "MERGE", "GRANT", "REVOKE">>

\* _is_safe_query looking for the keywords in sql_query as written, not in its upper case
is_safe_query_case_sensitive(sql_query) ==
    IF \E k \in DOMAIN forbidden_keywords : Contains(forbidden_keywords[k], sql_query)
    THEN FALSE
    ELSE IF ~StartsWith(Strip(Upper(sql_query)), "SELECT") THEN FALSE
    ELSE IF Contains(";", SubSeq(sql_query, 1, Len(sql_query) - 1)) THEN FALSE
    ELSE TRUE

\* _is_safe_query without the semicolon test
is_safe_query_no_semicolon_test(sql_query) ==
    IF \E k \in DOMAIN forbidden_keywords : Contains(forbidden_keywords[k], Upper(sql_query))
    THEN FALSE
    ELSE StartsWith(Strip(Upper(sql_query)), "SELECT")

_is_safe_query(sql_query) ==
    LET sql_upper == Upper(sql_query)
    IN  IF \E k \in DOMAIN forbidden_keywords : Contains(forbidden_keywords[k], sql_upper)
        THEN FALSE
        ELSE IF ~StartsWith(Strip(sql_upper), "SELECT") THEN FALSE
        ELSE IF Contains(";", SubSeq(sql_query, 1, Len(sql_query) - 1)) THEN FALSE
        ELSE TRUE

\* db_connection.py: write_keywords of _validate_read_only
write_keywords ==
    <<"INSERT", "UPDATE", "DELETE", "DROP", "CREATE", "ALTER", "TRUNCATE", "REPLACE">>

\* re.sub(r'(\"[^\"]*\"|\'[^\']*\')', "''", query): leftmost, non-overlapping;
\* a quote with no closing quote of its kind matches nothing
RECURSIVE sub_string_pattern(_)
sub_string_pattern(query) ==
    LET literal(open, close) ==
            IF close = 0
            THEN SubSeq(query, 1, open)
                 \o sub_string_pattern(SubSeq(query, open + 1, Len(query)))
            ELSE SubSeq(query, 1, open - 1) \o "''"
                 \o sub_string_pattern(SubSeq(query, close + 1, Len(query)))
        from(open) ==
            IF open = 0 THEN query
            ELSE literal(open, FindAny(query, {At(query, open)}, open + 1))
    IN  from(FindAny(query, {"\"", "'"}, 1))

\* re.sub(r'(--[^\n]*|/\*.*?\*/)', '', query_clean, flags=re.DOTALL)
RECURSIVE sub_comment_pattern(_)
sub_comment_pattern(query) ==
    LET line(open, close) ==
            IF close = 0 THEN SubSeq(query, 1, open - 1)
            ELSE SubSeq(query, 1, open - 1)
                 \o sub_comment_pattern(SubSeq(query, close, Len(query)))
        block(open, close) ==
            IF close = 0
            THEN SubSeq(query, 1, open)
                 \o sub_comment_pattern(SubSeq(query, open + 1, Len(query)))
            ELSE SubSeq(query, 1, open - 1)
                 \o sub_comment_pattern(SubSeq(query, close + 2, Len(query)))
        from(open) ==
            IF open = 0 THEN query
            ELSE IF SubSeq(query, open, open + 1) = "--"
            THEN line(open, FindAny(query, {"\n"}, open + 2))
            ELSE block(open, FindAny(query, {"*/"}, open + 2))
    IN  from(FindAny(query, {"--", "/*"}, 1))

\* _validate_read_only: raises on the first statement whose first word is a
\* write keyword; [raised, message] stands for the exception or its absence
_validate_read_only(query) ==
    LET query_clean == sub_comment_pattern(sub_string_pattern(query))
        query_upper == Strip(Upper(query_clean))
        written(first_word) == first_word \in Range(write_keywords)
        blocked(first_word) ==
            [raised |-> TRUE,
             message |-> "Security violation: Write operation '" \o first_word
                         \o "' blocked. This is a read-only connection."]
        check(statements) ==
            IF \A i \in DOMAIN statements : ~written(FirstWord(statements[i]))
            THEN [raised |-> FALSE, message |-> ""]
            ELSE blocked(FirstWord(statements[
                     CHOOSE i \in DOMAIN statements :
                         /\ written(FirstWord(statements[i]))
                         /\ \A j \in 1..(i - 1) : ~written(FirstWord(statements[j]))]))
    IN  check(SplitStatements(query_upper))

-----------------------------------------------------------------------------
(* The validator and the executor's check applied to candidate statements    *)

MaxFrags == 3

\* how the forbidden word is written in the candidate
Forms == {"upper", "lower", "capital", "quoted", "ident"}

KeywordForm(k, f) ==
    CASE f = "upper"   -> k
      [] f = "lower"   -> Lower(k)
      [] f = "capital" -> At(k, 1) \o Lower(SubSeq(k, 2, Len(k)))
      [] f = "quoted"  -> "'" \o Lower(k) \o "'"
      [] f = "ident"   -> Lower(k) \o "d_at"

\* the pieces candidates are built from; KW is the chosen word in its form
Fragments == {"SELECT ", " x", ";", " ", "KW"}

FragmentText(f) == IF f = "KW" THEN KeywordForm(kw, form) ELSE f

\* the program before its first run: no connection (DatabaseConnection.__init__),
\* nothing asked
NoDateContext == [label |-> "", filter |-> ""]

Unbound == [bound |-> FALSE, none |-> FALSE, text |-> "", source |-> ""]

NoResult == [none |-> TRUE, rows |-> <<>>]

Pending == [kind |-> "pending", text |-> ""]

NotGenerated == [raised |-> FALSE, message |-> "", none |-> TRUE, sql |-> "", source |-> ""]

PipeInit ==
    /\ pc = "start"
    /\ connection = "none"
    /\ available_companies = <<>>
    /\ pq_message = ""
    /\ pq_company_id = ""
    /\ pq_date_context = NoDateContext
    /\ pq_sql_query = Unbound
    /\ pq_result = NoResult
    /\ pq_response = Pending
    /\ accepted = {}
    /\ executed = <<>>
    /\ llm_calls = <<>>
    /\ trace = <<>>
    /\ rq_question = ""
    /\ rq_nphrases = 0
    /\ rq_stage = "compose"
    /\ rq_company_id = ""
    /\ rq_date_context = NoDateContext
    /\ rq_generated = NotGenerated
    /\ cp_sql = ""
    /\ cp_nparts = 0
    /\ cp_stage = "compose"
    /\ cp_fixed = <<>>
    /\ cp_processed = <<>>

SafeInit ==
    /\ forbidden_keywords = ForbiddenKeywordsInit
    /\ candidate = ""
    /\ nfrags = 0
    /\ kw \in Range(ForbiddenKeywordsInit)
    /\ form \in Forms
    /\ phase = "build"
    /\ safe_verdict = FALSE
    /\ exec_outcome = "none"
    /\ PipeInit

\* the statement grows by one fragment (a model completion, or a caller's text)
AppendFragment(f) ==
    /\ phase = "build"
    /\ nfrags < MaxFrags
    /\ candidate' = candidate \o FragmentText(f)
    /\ nfrags' = nfrags + 1
    /\ UNCHANGED <<forbidden_keywords, kw, form, phase, safe_verdict, exec_outcome>>
    /\ UNCHANGED <<pipeVars, resolveVars, correctVars>>

\* a call of _is_safe_query that uses up the keyword it looked for first
IsSafeQueryCallDroppingKeyword ==
    /\ phase = "build"
    /\ safe_verdict' = _is_safe_query(candidate)
    /\ forbidden_keywords' = Tail(forbidden_keywords)
    /\ phase' = "validated"
    /\ UNCHANGED <<candidate, nfrags, kw, form, exec_outcome>>
    /\ UNCHANGED <<pipeVars, resolveVars, correctVars>>

\* a call of SalesAgent._is_safe_query(candidate)
IsSafeQueryCall ==
    /\ phase = "build"
    /\ safe_verdict' = _is_safe_query(candidate)
    /\ phase' = "validated"
    /\ UNCHANGED <<forbidden_keywords, candidate, nfrags, kw, form, exec_outcome>>
    /\ UNCHANGED <<pipeVars, resolveVars, correctVars>>

\* a call of db.execute_query(candidate), validated before or not: the
\* statement reaches the connection unless _validate_read_only raises
ExecuteQueryCall ==
    /\ phase \in {"build", "validated"}
    /\ exec_outcome' = IF _validate_read_only(candidate).raised THEN "blocked" ELSE "submitted"
    /\ phase' = "executed"
    /\ UNCHANGED <<forbidden_keywords, candidate, nfrags, kw, form, safe_verdict>>
    /\ UNCHANGED <<pipeVars, resolveVars, correctVars>>

SafeNext ==
    \/ \E f \in Fragments : AppendFragment(f)
    \/ IsSafeQueryCall
    \/ ExecuteQueryCall

SpecSafe == SafeInit /\ [][SafeNext]_vars

-----------------------------------------------------------------------------
(* SalesAgent._extract_date_context                                         *)

\* yesterday.strftime('%Y-%m-%d') for the day the request is served on
YesterdayDate == "2024-01-14"

\* the extractor without message.lower()
extract_date_context_case_sensitive(message) ==
    LET msg == message
    IN  IF Contains("today", msg)
        THEN [label |-> "Today",
              filter |-> "AND si.invoice_date >= CURDATE() AND si.invoice_date < CURDATE() + INTERVAL 1 DAY"]
        ELSE IF Contains("yesterday", msg)
        THEN [label |-> "Yesterday",
              filter |-> "AND si.invoice_date = '" \o YesterdayDate \o "'"]
        ELSE IF Contains("this month", msg)
        THEN [label |-> "This Month",
              filter |-> "AND si.invoice_date >= DATE_FORMAT(CURDATE(), '%Y-%m-01') AND si.invoice_date < CURDATE() + INTERVAL 1 DAY"]
        ELSE IF Contains("last month", msg)
        THEN [label |-> "Last Month",
              filter |-> "AND si.invoice_date >= DATE_FORMAT(CURDATE() - INTERVAL 1 MONTH, '%Y-%m-01') AND si.invoice_date < DATE_FORMAT(CURDATE(), '%Y-%m-01')"]
        ELSE IF Contains("this year", msg)
        THEN [label |-> "This Year",
              filter |-> "AND si.invoice_date >= DATE_FORMAT(CURDATE(), '%Y-01-01') AND si.invoice_date < CURDATE() + INTERVAL 1 DAY"]
        ELSE IF Contains("last year", msg)
        THEN [label |-> "Last Year",
              filter |-> "AND si.invoice_date >= DATE_FORMAT(CURDATE() - INTERVAL 1 YEAR, '%Y-01-01') AND si.invoice_date < DATE_FORMAT(CURDATE(), '%Y-01-01')"]
        ELSE IF Contains("last 90 days", msg) \/ Contains("last 3 months", msg)
        THEN [label |-> "Last 90 Days",
              filter |-> "AND si.invoice_date >= CURDATE() - INTERVAL 90 DAY"]
        ELSE IF Contains("last 12 months", msg) \/ Contains("last year trend", msg)
        THEN [label |-> "Last 12 Months",
              filter |-> "AND si.invoice_date >= DATE_FORMAT(CURDATE() - INTERVAL 11 MONTH, '%Y-%m-01')"]
        ELSE [label |-> "All Time", filter |-> ""]

\* the label and the filter of the returned dict (its start_date and
\* end_date entries are read nowhere in the program and are left out)
_extract_date_context(message) ==
    LET msg == Lower(message)
    IN  IF Contains("today", msg)
        THEN [label |-> "Today",
              filter |-> "AND si.invoice_date >= CURDATE() AND si.invoice_date < CURDATE() + INTERVAL 1 DAY"]
        ELSE IF Contains("yesterday", msg)
        THEN [label |-> "Yesterday",
              filter |-> "AND si.invoice_date = '" \o YesterdayDate \o "'"]
        ELSE IF Contains("this month", msg)
        THEN [label |-> "This Month",
              filter |-> "AND si.invoice_date >= DATE_FORMAT(CURDATE(), '%Y-%m-01') AND si.invoice_date < CURDATE() + INTERVAL 1 DAY"]
        ELSE IF Contains("last month", msg)
        THEN [label |-> "Last Month",
              filter |-> "AND si.invoice_date >= DATE_FORMAT(CURDATE() - INTERVAL 1 MONTH, '%Y-%m-01') AND si.invoice_date < DATE_FORMAT(CURDATE(), '%Y-%m-01')"]
        ELSE IF Contains("this year", msg)
        THEN [label |-> "This Year",
              filter |-> "AND si.invoice_date >= DATE_FORMAT(CURDATE(), '%Y-01-01') AND si.invoice_date < CURDATE() + INTERVAL 1 DAY"]
        ELSE IF Contains("last year", msg)
        THEN [label |-> "Last Year",
              filter |-> "AND si.invoice_date >= DATE_FORMAT(CURDATE() - INTERVAL 1 YEAR, '%Y-01-01') AND si.invoice_date < DATE_FORMAT(CURDATE(), '%Y-01-01')"]
        ELSE IF Contains("last 90 days", msg) \/ Contains("last 3 months", msg)
        THEN [label |-> "Last 90 Days",
              filter |-> "AND si.invoice_date >= CURDATE() - INTERVAL 90 DAY"]
        ELSE IF Contains("last 12 months", msg) \/ Contains("last year trend", msg)
        THEN [label |-> "Last 12 Months",
              filter |-> "AND si.invoice_date >= DATE_FORMAT(CURDATE() - INTERVAL 11 MONTH, '%Y-%m-01')"]
        ELSE [label |-> "All Time", filter |-> ""]

-----------------------------------------------------------------------------
(* SalesAgent._generate_sql: quick_map, the hardcoded templates in source   *)
(* order, the LLM fallback                                                  *)

\* any(phrase in user_question_lower for phrase in phrases)
AnyIn(phrases, user_question_lower) ==
    \E i \in DOMAIN phrases : Contains(phrases[i], user_question_lower)

\* what a template yields for a question its phrases do not match
NoMatch == ""

\* the phrases of quick_map; every one maps to a call of _get_simple_query
quick_map ==
    <<"what are my returns for today", "how many returns today", "show me returns today",
      "what are my sales for today", "show me sales today", "today sales">>

\* SalesAgent defines no method _get_simple_query: the call raises
GetSimpleQueryError == "'SalesAgent' object has no attribute '_get_simple_query'"

\* 1.1 Who are my highest revenue customers?
T_1_1(user_question_lower, company_id) ==
    IF AnyIn(<<"highest revenue customers", "top revenue customers", "best customers", "customers who spend the most", "top 10 customers">>,
             user_question_lower)
    THEN "SELECT\n"
         \o "            c.company AS customer_name,\n"
         \o "            SUM(si.total - COALESCE(si.total_tax, 0)) AS total_revenue\n"
         \o "        FROM sales_invoice si\n"
         \o "        JOIN contacts c ON c.contact_id = si.customer_id\n"
         \o "        WHERE si.company_id = "
         \o company_id
         \o "\n"
         \o "          AND si.status NOT IN ('draft', 'draft_return', 'return', 'canceled')\n"
         \o "        GROUP BY si.customer_id, c.company\n"
         \o "        ORDER BY total_revenue DESC\n"
         \o "        LIMIT 10;"
    ELSE NoMatch

\* 1.2 Who are my lowest revenue customers?
T_1_2(user_question_lower, company_id) ==
    IF AnyIn(<<"lowest revenue customers", "worst customers", "lowest spending customers">>,
             user_question_lower)
    THEN "SELECT\n"
         \o "            c.company AS customer_name,\n"
         \o "            SUM(si.total - COALESCE(si.total_tax, 0)) AS total_revenue\n"
         \o "        FROM sales_invoice si\n"
         \o "        JOIN contacts c ON c.contact_id = si.customer_id\n"
         \o "        WHERE si.company_id = "
         \o company_id
         \o "\n"
         \o "          AND si.status NOT IN ('draft', 'draft_return', 'return', 'canceled')\n"
         \o "        GROUP BY si.customer_id, c.company\n"
         \o "        ORDER BY total_revenue ASC\n"
         \o "        LIMIT 10;"
    ELSE NoMatch

\* 1.3 Show customer-wise sales summary
T_1_3(user_question_lower, company_id) ==
    IF AnyIn(<<"customer wise sales summary", "customer sales summary", "sales by customer", "customer sales report">>,
             user_question_lower)
    THEN "SELECT\n"
         \o "            c.company AS customer_name,\n"
         \o "            COUNT(si.invoice_id) AS total_invoices,\n"
         \o "            SUM(si.total) AS gross_sales,\n"
         \o "            SUM(COALESCE(si.total_tax, 0)) AS total_tax,\n"
         \o "            SUM(si.total - COALESCE(si.total_tax, 0)) AS net_sales\n"
         \o "        FROM sales_invoice si\n"
         \o "        JOIN contacts c ON c.contact_id = si.customer_id\n"
         \o "        WHERE si.company_id = "
         \o company_id
         \o "\n"
         \o "          AND si.status NOT IN ('draft', 'draft_return', 'return', 'canceled')\n"
         \o "        GROUP BY si.customer_id, c.company\n"
         \o "        ORDER BY net_sales DESC\n"
         \o "        LIMIT 50;"
    ELSE NoMatch

\* 1.4 Which customers have not purchased in last 30 days?
T_1_4(user_question_lower, company_id) ==
    IF (Contains("30 days", user_question_lower) /\ (Contains("not purchased", user_question_lower) \/ Contains("inactive", user_question_lower)))
    THEN "SELECT\n"
         \o "            c.company AS customer_name,\n"
         \o "            MAX(si_all.invoice_date) AS last_invoice_date\n"
         \o "        FROM contacts c\n"
         \o "        LEFT JOIN sales_invoice si_recent\n"
         \o "            ON si_recent.customer_id = c.contact_id\n"
         \o "            AND si_recent.company_id = "
         \o company_id
         \o "\n"
         \o "            AND si_recent.status NOT IN ('draft', 'draft_return', 'return', 'canceled')\n"
         \o "            AND si_recent.invoice_date >= CURDATE() - INTERVAL 30 DAY\n"
         \o "        LEFT JOIN sales_invoice si_all\n"
         \o "            ON si_all.customer_id = c.contact_id\n"
         \o "            AND si_all.company_id = "
         \o company_id
         \o "\n"
         \o "            AND si_all.status NOT IN ('draft', 'draft_return', 'return', 'canceled')\n"
         \o "        WHERE si_recent.invoice_id IS NULL\n"
         \o "        GROUP BY c.company\n"
         \o "        ORDER BY last_invoice_date DESC\n"
         \o "        LIMIT 10;"
    ELSE NoMatch

\* 1.5 Which customers have not purchased in last 60 days?
T_1_5(user_question_lower, company_id) ==
    IF (Contains("60 days", user_question_lower) /\ (Contains("not purchased", user_question_lower) \/ Contains("inactive", user_question_lower)))
    THEN "SELECT\n"
         \o "            c.company AS customer_name,\n"
         \o "            MAX(si_all.invoice_date) AS last_invoice_date\n"
         \o "        FROM contacts c\n"
         \o "        LEFT JOIN sales_invoice si_recent\n"
         \o "            ON si_recent.customer_id = c.contact_id\n"
         \o "            AND si_recent.company_id = "
         \o company_id
         \o "\n"
         \o "            AND si_recent.status NOT IN ('draft', 'draft_return', 'return', 'canceled')\n"
         \o "            AND si_recent.invoice_date >= CURDATE() - INTERVAL 60 DAY\n"
         \o "        LEFT JOIN sales_invoice si_all\n"
         \o "            ON si_all.customer_id = c.contact_id\n"
         \o "            AND si_all.company_id = "
         \o company_id
         \o "\n"
         \o "            AND si_all.status NOT IN ('draft', 'draft_return', 'return', 'canceled')\n"
         \o "        WHERE si_recent.invoice_id IS NULL\n"
         \o "        GROUP BY c.company\n"
         \o "        ORDER BY last_invoice_date DESC\n"
         \o "        LIMIT 10;"
    ELSE NoMatch

\* 1.6 Which customers have not purchased in last 90 days?
T_1_6(user_question_lower, company_id) ==
    IF (Contains("90 days", user_question_lower) /\ (Contains("not purchased", user_question_lower) \/ Contains("inactive", user_question_lower)))
    THEN "SELECT\n"
         \o "            c.company AS customer_name,\n"
         \o "            MAX(si_all.invoice_date) AS last_invoice_date\n"
         \o "        FROM contacts c\n"
         \o "        LEFT JOIN sales_invoice si_recent\n"
         \o "            ON si_recent.customer_id = c.contact_id\n"
         \o "            AND si_recent.company_id = "
         \o company_id
         \o "\n"
         \o "            AND si_recent.status NOT IN ('draft', 'draft_return', 'return', 'canceled')\n"
         \o "            AND si_recent.invoice_date >= CURDATE() - INTERVAL 90 DAY\n"
         \o "        LEFT JOIN sales_invoice si_all\n"
         \o "            ON si_all.customer_id = c.contact_id\n"
         \o "            AND si_all.company_id = "
         \o company_id
         \o "\n"
         \o "            AND si_all.status NOT IN ('draft', 'draft_return', 'return', 'canceled')\n"
         \o "        WHERE si_recent.invoice_id IS NULL\n"
         \o "        GROUP BY c.company\n"
         \o "        ORDER BY last_invoice_date DESC\n"
         \o "        LIMIT 10;"
    ELSE NoMatch

\* 2.1 Total sales today
T_2_1(user_question_lower, company_id) ==
    IF AnyIn(<<"total sales today", "sales today", "today sales", "sales for today", "what are my sales today">>,
             user_question_lower)
    THEN "SELECT\n"
         \o "            SUM(sales_invoice.total - COALESCE(sales_invoice.total_tax, 0)) AS total_sales\n"
         \o "        FROM sales_invoice\n"
         \o "        WHERE sales_invoice.company_id = "
         \o company_id
         \o "\n"
         \o "          AND sales_invoice.invoice_date >= CURDATE()\n"
         \o "          AND sales_invoice.invoice_date < CURDATE() + INTERVAL 1 DAY\n"
         \o "          AND sales_invoice.status NOT IN ('draft', 'draft_return', 'return', 'canceled');"
    ELSE NoMatch

\* 2.2 Total sales this month
T_2_2(user_question_lower, company_id) ==
    IF AnyIn(<<"total sales this month", "sales this month">>,
             user_question_lower)
    THEN "SELECT\n"
         \o "            SUM(sales_invoice.total - COALESCE(sales_invoice.total_tax, 0)) AS total_sales\n"
         \o "        FROM sales_invoice\n"
         \o "        WHERE sales_invoice.company_id = "
         \o company_id
         \o "\n"
         \o "          AND sales_invoice.invoice_date >= DATE_FORMAT(CURDATE(), '%Y-%m-01')\n"
         \o "          AND sales_invoice.invoice_date < CURDATE() + INTERVAL 1 DAY\n"
         \o "          AND sales_invoice.status NOT IN ('draft', 'draft_return', 'return', 'canceled');"
    ELSE NoMatch

\* 2.3 Total sales this year
T_2_3(user_question_lower, company_id) ==
    IF AnyIn(<<"total sales this year", "sales this year">>,
             user_question_lower)
    THEN "SELECT\n"
         \o "            SUM(sales_invoice.total - COALESCE(sales_invoice.total_tax, 0)) AS total_sales\n"
         \o "        FROM sales_invoice\n"
         \o "        WHERE sales_invoice.company_id = "
         \o company_id
         \o "\n"
         \o "          AND sales_invoice.invoice_date >= DATE_FORMAT(CURDATE(), '%Y-01-01')\n"
         \o "          AND sales_invoice.invoice_date < CURDATE() + INTERVAL 1 DAY\n"
         \o "          AND sales_invoice.status NOT IN ('draft', 'draft_return', 'return', 'canceled');"
    ELSE NoMatch

\* 2.4 Total returns today
T_2_4(user_question_lower, company_id) ==
    IF AnyIn(<<"total returns today", "returns today">>,
             user_question_lower)
    THEN "SELECT\n"
         \o "            SUM(sales_invoice.total - COALESCE(sales_invoice.total_tax, 0)) AS total_returns\n"
         \o "        FROM sales_invoice\n"
         \o "        WHERE sales_invoice.company_id = "
         \o company_id
         \o "\n"
         \o "          AND sales_invoice.invoice_date >= CURDATE()\n"
         \o "          AND sales_invoice.invoice_date < CURDATE() + INTERVAL 1 DAY\n"
         \o "          AND sales_invoice.status = 'return';"
    ELSE NoMatch

\* 2.5 Total returns this month
T_2_5(user_question_lower, company_id) ==
    IF AnyIn(<<"total returns today", "returns today", "today returns", "returns for today", "what are my returns today">>,
             user_question_lower)
    THEN "SELECT\n"
         \o "            SUM(sales_invoice.total - COALESCE(sales_invoice.total_tax, 0)) AS total_returns\n"
         \o "        FROM sales_invoice\n"
         \o "        WHERE sales_invoice.company_id = "
         \o company_id
         \o "\n"
         \o "          AND sales_invoice.invoice_date >= DATE_FORMAT(CURDATE(), '%Y-%m-01')\n"
         \o "          AND sales_invoice.invoice_date < CURDATE() + INTERVAL 1 DAY\n"
         \o "          AND sales_invoice.status = 'return';"
    ELSE NoMatch

\* 2.6 Total returns this year
T_2_6(user_question_lower, company_id) ==
    IF AnyIn(<<"total returns this year", "returns this year">>,
             user_question_lower)
    THEN "SELECT\n"
         \o "            SUM(sales_invoice.total - COALESCE(sales_invoice.total_tax, 0)) AS total_returns\n"
         \o "        FROM sales_invoice\n"
         \o "        WHERE sales_invoice.company_id = "
         \o company_id
         \o "\n"
         \o "          AND sales_invoice.invoice_date >= DATE_FORMAT(CURDATE(), '%Y-01-01')\n"
         \o "          AND sales_invoice.invoice_date < CURDATE() + INTERVAL 1 DAY\n"
         \o "          AND sales_invoice.status = 'return';"
    ELSE NoMatch

\* 2.7 Net sales today
T_2_7(user_question_lower, company_id) ==
    IF AnyIn(<<"net sales today">>,
             user_question_lower)
    THEN "SELECT\n"
         \o "            COALESCE(\n"
         \o "                SUM(\n"
         \o "                    CASE\n"
         \o "                        WHEN sales_invoice.status = 'return' THEN -(\n"
         \o "                            sales_invoice.total - COALESCE(sales_invoice.total_tax, 0)\n"
         \o "                        )\n"
         \o "                        ELSE (\n"
         \o "                            sales_invoice.total - COALESCE(sales_invoice.total_tax, 0)\n"
         \o "                        )\n"
         \o "                    END\n"
         \o "                ),\n"
         \o "                0\n"
         \o "            ) AS net_sales\n"
         \o "        FROM sales_invoice\n"
         \o "        WHERE sales_invoice.company_id = "
         \o company_id
         \o "\n"
         \o "          AND sales_invoice.invoice_date >= CURDATE()\n"
         \o "          AND sales_invoice.invoice_date < CURDATE() + INTERVAL 1 DAY\n"
         \o "          AND sales_invoice.status NOT IN('draft', 'draft_return', 'canceled');"
    ELSE NoMatch

\* 2.8 Net sales this month
T_2_8(user_question_lower, company_id) ==
    IF AnyIn(<<"net sales this month">>,
             user_question_lower)
    THEN "SELECT\n"
         \o "            COALESCE(\n"
         \o "                SUM(\n"
         \o "                    CASE\n"
         \o "                        WHEN sales_invoice.status = 'return' THEN -(\n"
         \o "                            sales_invoice.total - COALESCE(sales_invoice.total_tax, 0)\n"
         \o "                        )\n"
         \o "                        ELSE (\n"
         \o "                            sales_invoice.total - COALESCE(sales_invoice.total_tax, 0)\n"
         \o "                        )\n"
         \o "                    END\n"
         \o "                ),\n"
         \o "                0\n"
         \o "            ) AS net_sales\n"
         \o "        FROM sales_invoice\n"
         \o "        WHERE sales_invoice.company_id = "
         \o company_id
         \o "\n"
         \o "          AND sales_invoice.invoice_date >= DATE_FORMAT(CURDATE(), '%Y-%m-01')\n"
         \o "          AND sales_invoice.invoice_date < CURDATE() + INTERVAL 1 DAY\n"
         \o "          AND sales_invoice.status NOT IN('draft', 'draft_return', 'canceled');"
    ELSE NoMatch

\* 2.9 Net sales this year
T_2_9(user_question_lower, company_id) ==
    IF AnyIn(<<"net sales this year">>,
             user_question_lower)
    THEN "SELECT\n"
         \o "            COALESCE(\n"
         \o "                SUM(\n"
         \o "                    CASE\n"
         \o "                        WHEN sales_invoice.status = 'return' THEN -(\n"
         \o "                            sales_invoice.total - COALESCE(sales_invoice.total_tax, 0)\n"
         \o "                        )\n"
         \o "                        ELSE (\n"
         \o "                            sales_invoice.total - COALESCE(sales_invoice.total_tax, 0)\n"
         \o "                        )\n"
         \o "                    END\n"
         \o "                ),\n"
         \o "                0\n"
         \o "            ) AS net_sales\n"
         \o "        FROM sales_invoice\n"
         \o "        WHERE sales_invoice.company_id = "
         \o company_id
         \o "\n"
         \o "          AND sales_invoice.invoice_date >= DATE_FORMAT(CURDATE(), '%Y-01-01')\n"
         \o "          AND sales_invoice.invoice_date < CURDATE() + INTERVAL 1 DAY\n"
         \o "          AND sales_invoice.status NOT IN ('draft', 'draft_return', 'canceled');"
    ELSE NoMatch

\* 3.1 Compare this month vs last month
T_3_1(user_question_lower, company_id) ==
    IF AnyIn(<<"compare this month vs last month", "compare this month with last month", "month vs month", "month comparison">>,
             user_question_lower)
    THEN "SELECT\n"
         \o "            COALESCE(SUM(CASE\n"
         \o "                WHEN sales_invoice.invoice_date >= DATE_FORMAT(CURDATE(), '%Y-%m-01')\n"
         \o "                 AND sales_invoice.invoice_date < CURDATE() + INTERVAL 1 DAY\n"
         \o "                 AND sales_invoice.status NOT IN ('draft', 'draft_return', 'return', 'canceled')\n"
         \o "                THEN sales_invoice.total - COALESCE(sales_invoice.total_tax, 0)\n"
         \o "                ELSE 0\n"
         \o "            END), 0) AS total_sales_this_month,\n"
         \o "            COALESCE(SUM(CASE\n"
         \o "                WHEN sales_invoice.invoice_date >= DATE_FORMAT(CURDATE() - INTERVAL 1 MONTH, '%Y-%m-01')\n"
         \o "                 AND sales_invoice.invoice_date < DATE_FORMAT(CURDATE(), '%Y-%m-01')\n"
         \o "                 AND sales_invoice.status NOT IN ('draft', 'draft_return', 'return', 'canceled')\n"
         \o "                THEN sales_invoice.total - COALESCE(sales_invoice.total_tax, 0)\n"
         \o "                ELSE 0\n"
         \o "            END), 0) AS total_sales_last_month\n"
         \o "        FROM sales_invoice\n"
         \o "        WHERE sales_invoice.company_id = "
         \o company_id
         \o ";"
    ELSE NoMatch

\* 3.2 Compare this year vs last year
T_3_2(user_question_lower, company_id) ==
    IF AnyIn(<<"compare this year vs last year", "compare this year with last year", "year vs year", "year comparison">>,
             user_question_lower)
    THEN "SELECT\n"
         \o "            COALESCE(SUM(CASE\n"
         \o "                WHEN sales_invoice.invoice_date >= DATE_FORMAT(CURDATE(), '%Y-01-01')\n"
         \o "                 AND sales_invoice.invoice_date < CURDATE() + INTERVAL 1 DAY\n"
         \o "                 AND sales_invoice.status NOT IN ('draft', 'draft_return', 'return', 'canceled')\n"
         \o "                THEN sales_invoice.total - COALESCE(sales_invoice.total_tax, 0)\n"
         \o "                ELSE 0\n"
         \o "            END), 0) AS total_sales_this_year,\n"
         \o "            COALESCE(SUM(CASE\n"
         \o "                WHEN sales_invoice.invoice_date >= DATE_FORMAT(CURDATE() - INTERVAL 1 YEAR, '%Y-01-01')\n"
         \o "                 AND sales_invoice.invoice_date < DATE_FORMAT(CURDATE(), '%Y-01-01')\n"
         \o "                 AND sales_invoice.status NOT IN ('draft', 'draft_return', 'return', 'canceled')\n"
         \o "                THEN sales_invoice.total - COALESCE(sales_invoice.total_tax, 0)\n"
         \o "                ELSE 0\n"
         \o "            END), 0) AS total_sales_last_year\n"
         \o "        FROM sales_invoice\n"
         \o "        WHERE sales_invoice.company_id = "
         \o company_id
         \o ";"
    ELSE NoMatch

\* 4.1 Day with highest sales
T_4_1(user_question_lower, company_id) ==
    IF AnyIn(<<"day with highest sales", "highest sales day", "best sales day">>,
             user_question_lower)
    THEN "SELECT\n"
         \o "            DATE(invoice_date) AS sales_day,\n"
         \o "            SUM(total - COALESCE(total_tax, 0)) AS total_sales\n"
         \o "        FROM sales_invoice\n"
         \o "        WHERE company_id = "
         \o company_id
         \o "\n"
         \o "          AND status NOT IN ('draft', 'draft_return', 'return', 'canceled')\n"
         \o "        GROUP BY DATE(invoice_date)\n"
         \o "        ORDER BY total_sales DESC\n"
         \o "        LIMIT 1;"
    ELSE NoMatch

\* 4.2 Day with lowest sales
T_4_2(user_question_lower, company_id) ==
    IF AnyIn(<<"day with lowest sales", "lowest sales day", "worst sales day">>,
             user_question_lower)
    THEN "SELECT\n"
         \o "            DATE(invoice_date) AS sales_day,\n"
         \o "            SUM(total - COALESCE(total_tax, 0)) AS total_sales\n"
         \o "        FROM sales_invoice\n"
         \o "        WHERE company_id = "
         \o company_id
         \o "\n"
         \o "          AND status NOT IN ('draft', 'draft_return', 'return', 'canceled')\n"
         \o "        GROUP BY DATE(invoice_date)\n"
         \o "        ORDER BY total_sales ASC\n"
         \o "        LIMIT 1;"
    ELSE NoMatch

\* 4.3 Total number of sales invoices
T_4_3(user_question_lower, company_id) ==
    IF AnyIn(<<"total number of sales invoices", "how many invoices", "total invoices", "count of invoices">>,
             user_question_lower)
    THEN "SELECT\n"
         \o "            COUNT(invoice_id) AS total_sales_invoices\n"
         \o "        FROM sales_invoice\n"
         \o "        WHERE company_id = "
         \o company_id
         \o "\n"
         \o "          AND status NOT IN ('draft', 'draft_return', 'return', 'canceled');"
    ELSE NoMatch

\* 5.1 Sales trend last 12 months
T_5_1(user_question_lower, company_id) ==
    IF AnyIn(<<"sales trend last 12 months", "sales trend", "monthly sales trend", "last 12 months trend">>,
             user_question_lower)
    THEN "SELECT\n"
         \o "            DATE_FORMAT(invoice_date, '%Y-%m') AS month,\n"
         \o "            SUM(total - COALESCE(total_tax, 0)) AS total_sales\n"
         \o "        FROM sales_invoice\n"
         \o "        WHERE company_id = "
         \o company_id
         \o "\n"
         \o "          AND invoice_date >= DATE_FORMAT(CURDATE() - INTERVAL 11 MONTH, '%Y-%m-01')\n"
         \o "          AND status NOT IN ('draft', 'draft_return', 'return', 'canceled')\n"
         \o "        GROUP BY DATE_FORMAT(invoice_date, '%Y-%m')\n"
         \o "        ORDER BY month ASC;"
    ELSE NoMatch

\* 6.1 Branch with highest sales
T_6_1(user_question_lower, company_id) ==
    IF AnyIn(<<"branch with highest sales", "warehouse with highest sales", "highest sales branch", "top performing branch">>,
             user_question_lower)
    THEN "SELECT\n"
         \o "            w.title AS branch_name,\n"
         \o "            SUM(si.total - COALESCE(si.total_tax, 0)) AS total_sales\n"
         \o "        FROM sales_invoice si\n"
         \o "        JOIN warehouses w ON si.warehouse_id = w.warehouse_id\n"
         \o "        WHERE si.company_id = "
         \o company_id
         \o "\n"
         \o "          AND si.status NOT IN ('draft', 'draft_return', 'return', 'canceled')\n"
         \o "        GROUP BY si.warehouse_id, w.title\n"
         \o "        ORDER BY total_sales DESC\n"
         \o "        LIMIT 1;"
    ELSE NoMatch

\* 6.2 Branch with lowest sales
T_6_2(user_question_lower, company_id) ==
    IF AnyIn(<<"branch with lowest sales", "warehouse with lowest sales", "lowest sales branch", "worst performing branch">>,
             user_question_lower)
    THEN "SELECT\n"
         \o "            w.title AS branch_name,\n"
         \o "            SUM(si.total - COALESCE(si.total_tax, 0)) AS total_sales\n"
         \o "        FROM sales_invoice si\n"
         \o "        JOIN warehouses w ON si.warehouse_id = w.warehouse_id\n"
         \o "        WHERE si.company_id = "
         \o company_id
         \o "\n"
         \o "          AND si.status NOT IN ('draft', 'draft_return', 'return', 'canceled')\n"
         \o "        GROUP BY si.warehouse_id, w.title\n"
         \o "        ORDER BY total_sales ASC\n"
         \o "        LIMIT 1;"
    ELSE NoMatch

\* 7.1 Sales by salesperson
T_7_1(user_question_lower, company_id) ==
    IF AnyIn(<<"sales by salesperson", "salesperson sales", "sales by rep", "show sales by salesperson">>,
             user_question_lower)
    THEN "SELECT\n"
         \o "            CONCAT(u.firstname, ' ', u.lastname) AS salesperson_name,\n"
         \o "            SUM(si.total - COALESCE(si.total_tax, 0)) AS total_sales\n"
         \o "        FROM sales_invoice si\n"
         \o "        LEFT JOIN users u ON si.salesman = u.user_id\n"
         \o "        WHERE si.company_id = "
         \o company_id
         \o "\n"
         \o "          AND si.salesman > 0\n"
         \o "          AND si.status NOT IN ('draft', 'draft_return', 'return', 'canceled')\n"
         \o "        GROUP BY si.salesman, u.firstname, u.lastname\n"
         \o "        ORDER BY total_sales DESC;"
    ELSE NoMatch

\* 7.2 Salesperson with highest sales
T_7_2(user_question_lower, company_id) ==
    IF AnyIn(<<"salesperson with highest sales", "top salesperson", "best performing salesperson">>,
             user_question_lower)
    THEN "SELECT\n"
         \o "            CONCAT(u.firstname, ' ', u.lastname) AS salesperson_name,\n"
         \o "            SUM(si.total - COALESCE(si.total_tax, 0)) AS total_sales\n"
         \o "        FROM sales_invoice si\n"
         \o "        LEFT JOIN users u ON si.salesman = u.user_id\n"
         \o "        WHERE si.company_id = "
         \o company_id
         \o "\n"
         \o "          AND si.salesman > 0\n"
         \o "          AND si.status NOT IN ('draft', 'draft_return', 'return', 'canceled')\n"
         \o "        GROUP BY si.salesman, u.firstname, u.lastname\n"
         \o "        ORDER BY total_sales DESC\n"
         \o "        LIMIT 1;"
    ELSE NoMatch

\* 7.3 Salesperson with lowest sales
T_7_3(user_question_lower, company_id) ==
    IF AnyIn(<<"salesperson with lowest sales", "worst salesperson", "lowest performing salesperson">>,
             user_question_lower)
    THEN "SELECT\n"
         \o "            CONCAT(u.firstname, ' ', u.lastname) AS salesperson_name,\n"
         \o "            SUM(si.total - COALESCE(si.total_tax, 0)) AS total_sales\n"
         \o "        FROM sales_invoice si\n"
         \o "        LEFT JOIN users u ON si.salesman = u.user_id\n"
         \o "        WHERE si.company_id = "
         \o company_id
         \o "\n"
         \o "          AND si.salesman > 0\n"
         \o "          AND si.status NOT IN ('draft', 'draft_return', 'return', 'canceled')\n"
         \o "        GROUP BY si.salesman, u.firstname, u.lastname\n"
         \o "        ORDER BY total_sales ASC\n"
         \o "        LIMIT 1;"
    ELSE NoMatch

\* 8.1 Top 10 products by quantity (Fast-Moving Items)
T_8_1(user_question_lower, company_id) ==
    IF AnyIn(<<"top 10 products by quantity", "top products by quantity", "fast moving products", "fast-moving items">>,
             user_question_lower)
    THEN "SELECT\n"
         \o "            p.name AS product_name,\n"
         \o "            SUM(ABS(s.quantity)) AS total_sold_qty\n"
         \o "        FROM stock s\n"
         \o "        JOIN products p ON s.product_id = p.product_id\n"
         \o "        JOIN sales_invoice si ON si.invoice_id = s.invoice_id\n"
         \o "        WHERE s.company_id = "
         \o company_id
         \o "\n"
         \o "          AND s.quantity < 0\n"
         \o "          AND s.stock_type = 'sales'\n"
         \o "          AND si.status != 'canceled'\n"
         \o "        GROUP BY s.product_id, p.name\n"
         \o "        ORDER BY total_sold_qty DESC\n"
         \o "        LIMIT 10;"
    ELSE NoMatch

\* 8.2 Slow-Moving / Lowest-Selling Products
T_8_2(user_question_lower, company_id) ==
    IF AnyIn(<<"slow moving products", "slow-moving products", "lowest selling products", "worst selling products">>,
             user_question_lower)
    THEN "SELECT\n"
         \o "            p.name AS product_name,\n"
         \o "            SUM(ABS(s.quantity)) AS total_sold_qty\n"
         \o "        FROM stock s\n"
         \o "        JOIN products p ON s.product_id = p.product_id\n"
         \o "        JOIN sales_invoice si ON si.invoice_id = s.invoice_id\n"
         \o "        WHERE s.company_id = "
         \o company_id
         \o "\n"
         \o "          AND s.quantity < 0\n"
         \o "          AND s.stock_type = 'sales'\n"
         \o "          AND si.status != 'canceled'\n"
         \o "        GROUP BY s.product_id, p.name\n"
         \o "        ORDER BY total_sold_qty ASC\n"
         \o "        LIMIT 10;"
    ELSE NoMatch

\* 8.3 Top 10 products by value
T_8_3(user_question_lower, company_id) ==
    IF AnyIn(<<"top 10 products by value", "top products by value", "highest value products", "products by value", "products with highest revenue", "most valuable products", "highest revenue products">>,
             user_question_lower)
    THEN "SELECT\n"
         \o "        p.name AS product_name,\n"
         \o "        SUM(ABS(s.quantity) * (sales_items.price - sales_items.discount)) AS total_sales_value\n"
         \o "    FROM stock s\n"
         \o "    JOIN products p ON s.product_id = p.product_id\n"
         \o "    JOIN sales_invoice si ON si.invoice_id = s.invoice_id\n"
         \o "    JOIN sales_items ON sales_items.invoice_id = si.invoice_id\n"
         \o "    WHERE s.company_id = 1336\n"
         \o "      AND s.quantity < 0\n"
         \o "      AND s.stock_type = 'sales'\n"
         \o "      AND si.status != 'canceled'\n"
         \o "    GROUP BY s.product_id, p.name\n"
         \o "    ORDER BY total_sales_value DESC\n"
         \o "    LIMIT 10;"
    ELSE NoMatch

\* 8.4 Category with highest sales
T_8_4(user_question_lower, company_id) ==
    IF AnyIn(<<"category with highest sales", "highest sales category", "best performing category">>,
             user_question_lower)
    THEN "SELECT\n"
         \o "            c.title AS category_name,\n"
         \o "            SUM(ABS(s.quantity)) AS total_sold_qty\n"
         \o "        FROM stock s\n"
         \o "        JOIN products p ON p.product_id = s.product_id\n"
         \o "        JOIN products_category c ON c.category_id = p.category_id\n"
         \o "        JOIN sales_invoice si ON si.invoice_id = s.invoice_id\n"
         \o "        WHERE s.company_id = "
         \o company_id
         \o "\n"
         \o "          AND s.stock_type = 'sales'\n"
         \o "          AND s.quantity < 0\n"
         \o "          AND si.status != 'canceled'\n"
         \o "        GROUP BY c.category_id, c.title\n"
         \o "        ORDER BY total_sold_qty DESC\n"
         \o "        LIMIT 1;"
    ELSE NoMatch

\* 8.5 Category with lowest sales
T_8_5(user_question_lower, company_id) ==
    IF AnyIn(<<"category with lowest sales", "lowest sales category", "worst performing category">>,
             user_question_lower)
    THEN "SELECT\n"
         \o "            c.title AS category_name,\n"
         \o "            SUM(ABS(s.quantity)) AS total_sold_qty\n"
         \o "        FROM stock s\n"
         \o "        JOIN products p ON p.product_id = s.product_id\n"
         \o "        JOIN products_category c ON c.category_id = p.category_id\n"
         \o "        JOIN sales_invoice si ON si.invoice_id = s.invoice_id\n"
         \o "        WHERE s.company_id = "
         \o company_id
         \o "\n"
         \o "          AND s.stock_type = 'sales'\n"
         \o "          AND s.quantity < 0\n"
         \o "          AND si.status != 'canceled'\n"
         \o "        GROUP BY c.category_id, c.title\n"
         \o "        ORDER BY total_sold_qty ASC\n"
         \o "        LIMIT 1;"
    ELSE NoMatch

\* 8.6 Product with highest revenue
T_8_6(user_question_lower, company_id) ==
    IF AnyIn(<<"product with highest revenue", "highest revenue product", "top revenue product">>,
             user_question_lower)
    THEN "SELECT\n"
         \o "            p.name AS product_name,\n"
         \o "            SUM(ABS(s.quantity) * (si_item.price - si_item.discount)) AS total_revenue\n"
         \o "        FROM stock s\n"
         \o "        JOIN products p ON s.product_id = p.product_id\n"
         \o "        JOIN sales_invoice si ON si.invoice_id = s.invoice_id\n"
         \o "        JOIN sales_items si_item ON si_item.invoice_id = si.invoice_id\n"
         \o "        WHERE s.company_id = "
         \o company_id
         \o "\n"
         \o "          AND s.stock_type = 'sales'\n"
         \o "          AND s.quantity < 0\n"
         \o "          AND si.status != 'canceled'\n"
         \o "        GROUP BY s.product_id, p.name\n"
         \o "        ORDER BY total_revenue DESC\n"
         \o "        LIMIT 1;"
    ELSE NoMatch

\* 8.7 Product with highest profit
T_8_7(user_question_lower, company_id) ==
    IF AnyIn(<<"product with highest profit", "highest profit product", "most profitable product">>,
             user_question_lower)
    THEN "SELECT\n"
         \o "            p.name AS product_name,\n"
         \o "            SUM(ABS(s.quantity) * ((si_item.price - si_item.discount) - s.cost)) AS total_profit\n"
         \o "        FROM stock s\n"
         \o "        JOIN products p ON p.product_id = s.product_id\n"
         \o "        JOIN sales_invoice si ON si.invoice_id = s.invoice_id\n"
         \o "        JOIN sales_items si_item ON si_item.invoice_id = si.invoice_id\n"
         \o "        WHERE s.company_id = "
         \o company_id
         \o "\n"
         \o "          AND s.stock_type = 'sales'\n"
         \o "          AND s.quantity < 0\n"
         \o "          AND si.status != 'canceled'\n"
         \o "        GROUP BY s.product_id, p.name\n"
         \o "        ORDER BY total_profit DESC\n"
         \o "        LIMIT 1;"
    ELSE NoMatch

\* 8.8 Product with lowest revenue
T_8_8(user_question_lower, company_id) ==
    IF AnyIn(<<"product with lowest revenue", "lowest revenue product">>,
             user_question_lower)
    THEN "SELECT\n"
         \o "            p.name AS product_name,\n"
         \o "            SUM(ABS(s.quantity) * (si_item.price - si_item.discount)) AS total_revenue\n"
         \o "        FROM stock s\n"
         \o "        JOIN products p ON s.product_id = p.product_id\n"
         \o "        JOIN sales_invoice si ON si.invoice_id = s.invoice_id\n"
         \o "        JOIN sales_items si_item ON si_item.invoice_id = si.invoice_id\n"
         \o "        WHERE s.company_id = "
         \o company_id
         \o "\n"
         \o "          AND s.stock_type = 'sales'\n"
         \o "          AND s.quantity < 0\n"
         \o "          AND si.status != 'canceled'\n"
         \o "        GROUP BY s.product_id, p.name\n"
         \o "        ORDER BY total_revenue ASC\n"
         \o "        LIMIT 1;"
    ELSE NoMatch

\* 8.9 Product with lowest profit
T_8_9(user_question_lower, company_id) ==
    IF AnyIn(<<"product with lowest profit", "lowest profit product">>,
             user_question_lower)
    THEN "SELECT\n"
         \o "            p.name AS product_name,\n"
         \o "            SUM(ABS(s.quantity) * ((si_item.price - si_item.discount) - s.cost)) AS total_profit\n"
         \o "        FROM stock s\n"
         \o "        JOIN products p ON s.product_id = p.product_id\n"
         \o "        JOIN sales_invoice si ON si.invoice_id = s.invoice_id\n"
         \o "        JOIN sales_items si_item ON si_item.invoice_id = si.invoice_id\n"
         \o "        WHERE s.company_id = "
         \o company_id
         \o "\n"
         \o "          AND s.stock_type = 'sales'\n"
         \o "          AND s.quantity < 0\n"
         \o "          AND si.status != 'canceled'\n"
         \o "        GROUP BY s.product_id, p.name\n"
         \o "        ORDER BY total_profit ASC\n"
         \o "        LIMIT 1;"
    ELSE NoMatch

Template(k, user_question_lower, company_id) ==
    CASE k = 1 -> T_1_1(user_question_lower, company_id)
      [] k = 2 -> T_1_2(user_question_lower, company_id)
      [] k = 3 -> T_1_3(user_question_lower, company_id)
      [] k = 4 -> T_1_4(user_question_lower, company_id)
      [] k = 5 -> T_1_5(user_question_lower, company_id)
      [] k = 6 -> T_1_6(user_question_lower, company_id)
      [] k = 7 -> T_2_1(user_question_lower, company_id)
      [] k = 8 -> T_2_2(user_question_lower, company_id)
      [] k = 9 -> T_2_3(user_question_lower, company_id)
      [] k = 10 -> T_2_4(user_question_lower, company_id)
      [] k = 11 -> T_2_5(user_question_lower, company_id)
      [] k = 12 -> T_2_6(user_question_lower, company_id)
      [] k = 13 -> T_2_7(user_question_lower, company_id)
      [] k = 14 -> T_2_8(user_question_lower, company_id)
      [] k = 15 -> T_2_9(user_question_lower, company_id)
      [] k = 16 -> T_3_1(user_question_lower, company_id)
      [] k = 17 -> T_3_2(user_question_lower, company_id)
      [] k = 18 -> T_4_1(user_question_lower, company_id)
      [] k = 19 -> T_4_2(user_question_lower, company_id)
      [] k = 20 -> T_4_3(user_question_lower, company_id)
      [] k = 21 -> T_5_1(user_question_lower, company_id)
      [] k = 22 -> T_6_1(user_question_lower, company_id)
      [] k = 23 -> T_6_2(user_question_lower, company_id)
      [] k = 24 -> T_7_1(user_question_lower, company_id)
      [] k = 25 -> T_7_2(user_question_lower, company_id)
      [] k = 26 -> T_7_3(user_question_lower, company_id)
      [] k = 27 -> T_8_1(user_question_lower, company_id)
      [] k = 28 -> T_8_2(user_question_lower, company_id)
      [] k = 29 -> T_8_3(user_question_lower, company_id)
      [] k = 30 -> T_8_4(user_question_lower, company_id)
      [] k = 31 -> T_8_5(user_question_lower, company_id)
      [] k = 32 -> T_8_6(user_question_lower, company_id)
      [] k = 33 -> T_8_7(user_question_lower, company_id)
      [] k = 34 -> T_8_8(user_question_lower, company_id)
      [] k = 35 -> T_8_9(user_question_lower, company_id)

NumTemplates == 35

\* the first template, in source order from k on, whose condition holds
RECURSIVE FirstTemplate(_, _, _)
FirstTemplate(k, user_question_lower, company_id) ==
    IF k > NumTemplates THEN NoMatch
    ELSE LET query == Template(k, user_question_lower, company_id)
         IN  IF query # NoMatch THEN query
             ELSE FirstTemplate(k + 1, user_question_lower, company_id)

-----------------------------------------------------------------------------
(* SalesAgent._generate_sql_with_llm: post-processing of the completion     *)

\* re.sub(fence + r'\n?', '', s)
RECURSIVE RemoveFence(_, _)
RemoveFence(s, fence) ==
    LET cut(i, j) ==
            SubSeq(s, 1, i - 1)
            \o RemoveFence(SubSeq(s, IF j <= Len(s) /\ At(s, j) = "\n" THEN j + 1 ELSE j,
                                  Len(s)), fence)
        from(i) == IF i = 0 THEN s ELSE cut(i, i + Len(fence))
    IN  from(FindAny(s, {fence}, 1))

\* the strings, in lower case, matched by
\* r'(JOIN sales_items(?: (?:AS )?si_item)? ON (?:si_item\.)?invoice_id = (?:si\.)?invoice_id)'
JoinPatterns ==
    {"join sales_items" \o a \o " on " \o b \o "invoice_id = " \o c \o "invoice_id" :
        a \in {"", " si_item", " as si_item"}, b \in {"", "si_item."}, c \in {"", "si."}}

\* re.sub(pattern, r'\1 AND si_item.product_id = s.product_id', s, flags=re.IGNORECASE)
RECURSIVE InjectProductJoin(_)
InjectProductJoin(s) ==
    LET matched(low, i) == CHOOSE p \in JoinPatterns :
                               /\ i + Len(p) - 1 <= Len(low)
                               /\ SubSeq(low, i, i + Len(p) - 1) = p
        cut(e) == SubSeq(s, 1, e) \o " AND si_item.product_id = s.product_id"
                  \o InjectProductJoin(SubSeq(s, e + 1, Len(s)))
        from(low, i) == IF i = 0 THEN s ELSE cut(i + Len(matched(low, i)) - 1)
        scan(low) == from(low, FindAny(low, JoinPatterns, 1))
    IN  scan(Lower(s))

\* lines 1018-1031 applied to the text _call_groq returned
PostProcessCompletion(completion) ==
    LET joined(sql, low) ==
            IF /\ Contains("sales_items", low)
               /\ Contains("stock", low)
               /\ ~Contains("sales_items.product_id", sql)
               /\ ~Contains("si_item.product_id", sql)
            THEN InjectProductJoin(sql)
            ELSE sql
        fixed(sql) == joined(sql, Lower(sql))
    IN  Strip(fixed(RemoveFence(RemoveFence(completion, "~~~sql"), "~~~")))

-----------------------------------------------------------------------------
(* SalesAgent._fix_common_sql_errors                                        *)

\* Fix 1: the status filter looked for, and what it is replaced by
LegacyStatusFilter == "status IN ('paid', 'unpaid', 'remaining')"

CanonicalStatusFilter == "status NOT IN ('draft', 'draft_return', 'return', 'canceled')"

\* s.replace(old, new)
RECURSIVE ReplaceAll(_, _, _)
ReplaceAll(s, old, new) ==
    LET from(i) == IF i = 0 THEN s
                   ELSE SubSeq(s, 1, i - 1) \o new
                        \o ReplaceAll(SubSeq(s, i + Len(old), Len(s)), old, new)
    IN  from(FindAny(s, {old}, 1))

\* the index of the last character of the match of a pattern of Fix 2 to
\* Fix 4 that starts at index i of s, 0 when there is none:
\*   "customer_name"           r'\bc\.name\b'
\*   "category_name"           r'\bc\.name\b(?=.*category)'
\*   "pc_name"                 r'\bpc\.name\b'
\*   "products_category_name"  r'products_category\.name'
\*   "double_comma"            r',\s*,'
\*   "comma_keyword"           r',\s*(FROM|WHERE|GROUP|ORDER|LIMIT)'
\*   "select_comma"            r'SELECT\s+,'
MatchEnd(pattern, s, i) ==
    LET n == Len(s)
        w == LowerLetters \cup UpperLetters
             \cup {"0", "1", "2", "3", "4", "5", "6", "7", "8", "9", "_"}
        word(j) == j >= 1 /\ j <= n /\ At(s, j) \in w
        boundary(j) == word(j - 1) # word(j)
        lit(j, t) == j + Len(t) - 1 <= n /\ SubSeq(s, j, j + Len(t) - 1) = t
        space(j) == At(s, j) \in Whitespace
        skip(j) == IF \A k \in j..n : space(k) THEN n + 1
                   ELSE CHOOSE k \in j..n : ~space(k) /\ \A m \in j..(k - 1) : space(m)
        name(t) == IF lit(i, t) /\ boundary(i) /\ boundary(i + Len(t))
                   THEN i + Len(t) - 1 ELSE 0
        upto(e, eol) == SubSeq(s, e + 1, IF eol = 0 THEN n ELSE eol - 1)
        rest_of_line(e) == upto(e, FindAny(s, {"\n"}, e + 1))
        ahead(e) == IF e # 0 /\ Contains("category", rest_of_line(e)) THEN e ELSE 0
        comma(j) == IF j <= n /\ At(s, j) = "," THEN j ELSE 0
        keyword(j) == IF \E k \in {"FROM", "WHERE", "GROUP", "ORDER", "LIMIT"} : lit(j, k)
                      THEN j + Len(CHOOSE k \in {"FROM", "WHERE", "GROUP", "ORDER", "LIMIT"} :
                                       lit(j, k)) - 1
                      ELSE 0
        spaced_comma(j) == IF j > i + 6 THEN comma(j) ELSE 0
    IN  CASE pattern = "customer_name" -> name("c.name")
          [] pattern = "category_name" -> ahead(name("c.name"))
          [] pattern = "pc_name" -> name("pc.name")
          [] pattern = "products_category_name" ->
                IF lit(i, "products_category.name") THEN i + 21 ELSE 0
          [] pattern = "double_comma" ->
                IF At(s, i) = "," THEN comma(skip(i + 1)) ELSE 0
          [] pattern = "comma_keyword" ->
                IF At(s, i) = "," THEN keyword(skip(i + 1)) ELSE 0
          [] pattern = "select_comma" ->
                IF lit(i, "SELECT") THEN spaced_comma(skip(i + 6)) ELSE 0

\* re.sub(pattern, repl, s) on s from index from on: the matches are taken
\* from left to right and do not overlap, and text a replacement produced
\* is not scanned again
RECURSIVE ReSub(_, _, _)
ReSub(pattern, s, from) ==
    LET n == Len(s)
        keyword(e) == IF SubSeq(s, e - 3, e) = "FROM" THEN "FROM" ELSE SubSeq(s, e - 4, e)
        repl(e) == CASE pattern = "customer_name" -> "c.company"
                     [] pattern = "category_name" -> "c.title"
                     [] pattern = "pc_name" -> "pc.title"
                     [] pattern = "products_category_name" -> "products_category.title"
                     [] pattern = "double_comma" -> ","
                     [] pattern = "comma_keyword" -> " " \o keyword(e)
                     [] pattern = "select_comma" -> "SELECT "
        cut(i, e) == SubSeq(s, from, i - 1) \o repl(e) \o ReSub(pattern, s, e + 1)
        at(i) == cut(i, MatchEnd(pattern, s, i))
        run(hits) == IF hits = {} THEN SubSeq(s, from, n)
                     ELSE at(CHOOSE i \in hits : \A j \in hits : i <= j)
    IN  run({i \in from..n : MatchEnd(pattern, s, i) # 0})

\* Fix 1 to Fix 4, in the order of the code
_fix_common_sql_errors(sql_query) ==
    LET fix1(s) == IF Contains(LegacyStatusFilter, s)
                   THEN ReplaceAll(s, LegacyStatusFilter, CanonicalStatusFilter)
                   ELSE s
        fix2(s) == IF Contains("c.name", s) /\ Contains("contacts c", s)
                   THEN ReSub("customer_name", s, 1)
                   ELSE s
        fix3(s) == IF Contains("category_id", Lower(s))
                   THEN ReSub("products_category_name",
                              ReSub("pc_name", ReSub("category_name", s, 1), 1), 1)
                   ELSE s
        fix4(s) == ReSub("select_comma", ReSub("comma_keyword", ReSub("double_comma", s, 1), 1), 1)
    IN  fix4(fix3(fix2(fix1(sql_query))))

\* a synthesizer that answers a failed model call with a statement of its own
generate_sql_with_llm_guessing(llm) ==
    IF llm.ok THEN [none |-> FALSE, sql |-> PostProcessCompletion(Strip(llm.text))]
    ELSE [none |-> FALSE, sql |-> "SELECT * FROM sales_invoice"]

\* _generate_sql_with_llm: llm is the outcome of _call_groq, [ok, text];
\* the result is [none, sql], none standing for Python's None
_generate_sql_with_llm(llm) ==
    IF llm.ok THEN [none |-> FALSE, sql |-> PostProcessCompletion(Strip(llm.text))]
    ELSE [none |-> TRUE, sql |-> ""]

\* _generate_sql: [raised, message, none, sql, source]
_generate_sql(user_question, company_id, llm) ==
    LET generated(gen) ==
            [raised |-> FALSE, message |-> "",
             none |-> gen.none, sql |-> gen.sql, source |-> "llm"]
        hardcoded(query) ==
            IF query # NoMatch
            THEN [raised |-> FALSE, message |-> "",
                  none |-> FALSE, sql |-> query, source |-> "template"]
            ELSE generated(_generate_sql_with_llm(llm))
        resolve(user_question_lower) ==
            IF AnyIn(quick_map, user_question_lower)
            THEN [raised |-> TRUE, message |-> GetSimpleQueryError,
                  none |-> FALSE, sql |-> "", source |-> "quick_map"]
            ELSE hardcoded(FirstTemplate(1, user_question_lower, company_id))
    IN  resolve(Lower(user_question))

-----------------------------------------------------------------------------
(* Result rows and the formatters                                           *)
(*                                                                          *)
(* A result is a sequence of rows, a row a sequence of fields in column     *)
(* order, a field [key, t, n, s]: t is the Python type of the value ("int", *)
(* "float", "str", "null" for None), n the number in hundredths, s the text *)

Abs(n) == IF n < 0 THEN -n ELSE n

Digits2(k) == IF k < 10 THEN "0" \o ToString(k) ELSE ToString(k)

Digits3(k) == IF k < 10 THEN "00" \o ToString(k)
              ELSE IF k < 100 THEN "0" \o ToString(k) ELSE ToString(k)

\* thousands separators of a natural number
RECURSIVE Commas(_)
Commas(k) == IF k < 1000 THEN ToString(k)
             ELSE Commas(k \div 1000) \o "," \o Digits3(k % 1000)

\* f"{value:,.2f}"
FormatCommas2f(n) ==
    (IF n < 0 THEN "-" ELSE "") \o Commas(Abs(n) \div 100) \o "." \o Digits2(Abs(n) % 100)

\* f"{value:.2f}"
Format2f(n) ==
    (IF n < 0 THEN "-" ELSE "") \o ToString(Abs(n) \div 100) \o "." \o Digits2(Abs(n) % 100)

\* int(value): truncation towards zero
IntOf(n) == IF n < 0 THEN -(Abs(n) \div 100) ELSE n \div 100

\* f"{int(value):,}" and f"{int(value)}"
FormatIntCommas(n) == (IF IntOf(n) < 0 THEN "-" ELSE "") \o Commas(Abs(IntOf(n)))
FormatInt(n) == (IF IntOf(n) < 0 THEN "-" ELSE "") \o ToString(Abs(IntOf(n)))

IsNumber(field) == field.t \in {"int", "float"}

\* str(value) of a value that is no number
StrOf(field) == IF field.t = "null" THEN "None" ELSE field.s

IsLetter(c) == Contains(c, Lowercase) \/ Contains(c, Uppercase)

\* s.replace('_', ' ')
RECURSIVE ReplaceUnderscores(_)
ReplaceUnderscores(s) ==
    LET i == FindAny(s, {"_"}, 1)
    IN  IF i = 0 THEN s
        ELSE SubSeq(s, 1, i - 1) \o " " \o ReplaceUnderscores(SubSeq(s, i + 1, Len(s)))

\* s.title()
RECURSIVE TitleFrom(_, _)
TitleFrom(s, i) ==
    IF i > Len(s) THEN ""
    ELSE (IF i = 1 \/ ~IsLetter(At(s, i - 1)) THEN UpperChar(At(s, i)) ELSE LowerChar(At(s, i)))
         \o TitleFrom(s, i + 1)

Title(s) == TitleFrom(s, 1)

FormattedKey(key) == Title(ReplaceUnderscores(key))

\* any(k in key.lower() for k in words)
KeyHas(words, key) == \E w \in words : Contains(w, Lower(key))

\* one field of a row of _format_table_results (lines 1134-1159)
TableField(field) ==
    LET key == field.key
        formatted_key == FormattedKey(key)
    IN  IF field.t = "null" THEN ""
        ELSE IF IsNumber(field)
        THEN IF /\ KeyHas({"revenue", "amount", "total", "price", "cost", "profit", "value",
                           "sales_value", "total_sales_value"}, key)
                /\ ~Contains("qty", Lower(key))
                /\ ~Contains("quantity", Lower(key))
                /\ ~Contains("sold_qty", Lower(key))
             THEN "  ($) **" \o formatted_key \o ":** $" \o FormatCommas2f(field.n) \o "\n"
             ELSE IF KeyHas({"count", "quantity", "invoices", "orders", "units", "qty",
                             "sold_qty", "total_sold_qty"}, key)
             THEN "  (box) **" \o formatted_key \o ":** " \o FormatIntCommas(field.n) \o " units\n"
             ELSE IF Contains("percent", Lower(key)) \/ Contains("margin", Lower(key))
             THEN "  (up) **" \o formatted_key \o ":** " \o Format2f(field.n) \o "%\n"
             ELSE IF Contains("days", Lower(key))
             THEN "  (clock) **" \o formatted_key \o ":** " \o FormatInt(field.n) \o " days\n"
             ELSE "  (pin) **" \o formatted_key \o ":** " \o FormatCommas2f(field.n) \o "\n"
        ELSE IF Contains("date", Lower(key))
        THEN "  (cal) **" \o formatted_key \o ":** " \o StrOf(field) \o "\n"
        ELSE "  (memo) **" \o formatted_key \o ":** " \o StrOf(field) \o "\n"

RECURSIVE TableFields(_, _)
TableFields(row, i) ==
    IF i > Len(row) THEN "" ELSE TableField(row[i]) \o TableFields(row, i + 1)

RECURSIVE TableRows(_, _, _)
TableRows(results, idx, emoji) ==
    IF idx > Len(results) THEN ""
    ELSE "\n**" \o emoji \o " #" \o ToString(idx) \o "**\n"
         \o TableFields(results[idx], 1) \o TableRows(results, idx + 1, emoji)

_format_table_results(user_question, results, date_context) ==
    LET q == Lower(user_question)
        emoji == IF Contains("customer", q) THEN "(person)"
                 ELSE IF Contains("product", q) THEN "(box)"
                 ELSE IF Contains("invoice", q) THEN "(page)"
                 ELSE IF Contains("sales", q) \/ Contains("branch", q) THEN "($)"
                 ELSE IF Contains("salesperson", q) THEN "(rep)"
                 ELSE "(chart)"
    IN  "**(chart) " \o Upper(user_question) \o "**\n"
        \o "**(cal) Period:** " \o date_context.label \o "\n"
        \o "**(up) Found " \o ToString(Len(results)) \o " results**\n\n"
        \o TableRows(results, 1, emoji)

\* one field of the single row of _basic_format_results (lines 1266-1282)
BasicField(field) ==
    LET key == field.key
        formatted_key == FormattedKey(key)
    IN  IF field.t = "null" THEN "**" \o formatted_key \o ":** N/A\n"
        ELSE IF IsNumber(field)
        THEN IF KeyHas({"revenue", "amount", "total", "sales", "price", "cost", "profit"}, key)
             THEN "($) **" \o formatted_key \o ":** $" \o FormatCommas2f(field.n) \o "\n"
             ELSE IF KeyHas({"count", "quantity", "invoices", "orders", "customers"}, key)
             THEN "(chart) **" \o formatted_key \o ":** " \o FormatIntCommas(field.n) \o "\n"
             ELSE IF Contains("percent", Lower(key))
             THEN "(up) **" \o formatted_key \o ":** " \o Format2f(field.n) \o "%\n"
             ELSE "**" \o formatted_key \o ":** " \o FormatCommas2f(field.n) \o "\n"
        ELSE IF Contains("date", Lower(key))
        THEN "(cal) **" \o formatted_key \o ":** " \o StrOf(field) \o "\n"
        ELSE "**" \o formatted_key \o ":** " \o StrOf(field) \o "\n"

RECURSIVE BasicFields(_, _)
BasicFields(row, i) ==
    IF i > Len(row) THEN "" ELSE BasicField(row[i]) \o BasicFields(row, i + 1)

\* one item of a row of the list form of _basic_format_results (lines 1288-1296)
BasicItem(field) ==
    IF IsNumber(field)
    THEN IF KeyHas({"revenue", "amount", "total", "sales"}, field.key)
         THEN field.key \o ": $" \o FormatCommas2f(field.n)
         ELSE IF KeyHas({"count", "quantity"}, field.key)
         THEN field.key \o ": " \o FormatIntCommas(field.n)
         ELSE field.key \o ": " \o FormatCommas2f(field.n)
    ELSE field.key \o ": " \o StrOf(field)

\* " | ".join(row_items)
RECURSIVE BasicItems(_, _)
BasicItems(row, i) ==
    IF i > Len(row) THEN ""
    ELSE (IF i > 1 THEN " | " ELSE "") \o BasicItem(row[i]) \o BasicItems(row, i + 1)

BasicListLimit == 10

RECURSIVE BasicRows(_, _)
BasicRows(results, idx) ==
    IF idx > Len(results) \/ idx > BasicListLimit THEN ""
    ELSE ToString(idx) \o ". " \o BasicItems(results[idx], 1) \o "\n"
         \o BasicRows(results, idx + 1)

_basic_format_results(results, date_context) ==
    "**(chart) QUERY RESULTS**\n**(cal) Period:** " \o date_context.label \o "\n\n"
    \o (IF Len(results) = 1 THEN BasicFields(results[1], 1)
        ELSE "**Found " \o ToString(Len(results)) \o " results**\n\n" \o BasicRows(results, 1))

\* the value of a key of a row, as float(result[key]) reads it:
\* [raised, message, n]
HasKey(row, key) == \E i \in DOMAIN row : row[i].key = key

Field(row, key) == row[CHOOSE i \in DOMAIN row : row[i].key = key]

\* float(result[key]); a text value is taken to be no number literal
FloatOf(row, key) ==
    IF ~HasKey(row, key)
    THEN [raised |-> TRUE, message |-> "'" \o key \o "'", n |-> 0]
    ELSE IF Field(row, key).t = "null"
    THEN [raised |-> TRUE, n |-> 0,
          message |-> "float() argument must be a string or a real number, not 'NoneType'"]
    ELSE IF Field(row, key).t = "str"
    THEN [raised |-> TRUE, n |-> 0,
          message |-> "could not convert string to float: '" \o Field(row, key).s \o "'"]
    ELSE [raised |-> FALSE, message |-> "", n |-> Field(row, key).n]

\* (difference / last_period) * 100 in tenths, rounded as f"{x:.1f}" rounds
\* (half to even), for last_period > 0
PercentTenths(difference, last_period) ==
    LET num == difference * 1000
        q == num \div last_period
        r == num % last_period
    IN  IF 2 * r > last_period THEN q + 1
        ELSE IF 2 * r = last_period THEN q + (q % 2)
        ELSE q

\* f"{x:.1f}" of x given in tenths; negative is whether x < 0 before rounding
Format1f(tenths, negative) ==
    (IF negative THEN "-" ELSE "") \o ToString(Abs(tenths) \div 10) \o "." \o ToString(Abs(tenths) % 10)

\* the comparison branch reporting a decrease with the signed percentage
comparison_block_signed_decrease(result) ==
    LET report(period_label, this_period, last_period, difference, percent_change,
               negative, trend_emoji, sign) ==
            "**(chart) SALES COMPARISON - This " \o period_label
            \o " vs Last " \o period_label \o "**\n\n"
            \o "**This " \o period_label \o ":** $" \o FormatCommas2f(this_period) \o " ($)\n"
            \o "**Last " \o period_label \o ":** $" \o FormatCommas2f(last_period) \o " ($)\n\n"
            \o "**Difference:** " \o sign \o "$" \o FormatCommas2f(Abs(difference))
            \o " " \o trend_emoji \o "\n"
            \o "**Change:** " \o sign \o Format1f(percent_change, negative) \o "% "
            \o trend_emoji \o "\n\n"
            \o (IF difference > 0
                THEN "(idea) **Insight:** Sales increased by "
                     \o Format1f(percent_change, negative)
                     \o "% - excellent performance! Maintain current strategies and consider scaling successful initiatives."
                ELSE IF difference < 0
                THEN "(warn) **Insight:** Sales decreased by "
                     \o Format1f(percent_change, negative)
                     \o "% - review strategies and identify areas for improvement to recover growth."
                ELSE "(i) **Insight:** Sales remained stable - consider new growth initiatives to boost performance.")
        metrics(period_label, this_period, last_period, difference) ==
            report(period_label, this_period, last_period, difference,
                   IF last_period > 0 THEN PercentTenths(difference, last_period) ELSE 0,
                   last_period > 0 /\ difference < 0,
                   IF difference > 0 THEN "(up)" ELSE IF difference < 0 THEN "(down)" ELSE "(flat)",
                   IF difference > 0 THEN "+" ELSE "")
        periods(period_label, this, last) ==
            IF this.raised THEN [raised |-> TRUE, text |-> this.message]
            ELSE IF last.raised THEN [raised |-> TRUE, text |-> last.message]
            ELSE [raised |-> FALSE,
                  text |-> metrics(period_label, this.n, last.n, this.n - last.n)]
    IN  IF HasKey(result, "total_sales_this_month")
        THEN periods("Month", FloatOf(result, "total_sales_this_month"),
                     FloatOf(result, "total_sales_last_month"))
        ELSE periods("Year", FloatOf(result, "total_sales_this_year"),
                     FloatOf(result, "total_sales_last_year"))

\* the comparison branch of _format_with_llm (lines 1176-1219)
ComparisonBlock(result) ==
    LET report(period_label, this_period, last_period, difference, percent_change,
               negative, trend_emoji, sign) ==
            "**(chart) SALES COMPARISON - This " \o period_label
            \o " vs Last " \o period_label \o "**\n\n"
            \o "**This " \o period_label \o ":** $" \o FormatCommas2f(this_period) \o " ($)\n"
            \o "**Last " \o period_label \o ":** $" \o FormatCommas2f(last_period) \o " ($)\n\n"
            \o "**Difference:** " \o sign \o "$" \o FormatCommas2f(Abs(difference))
            \o " " \o trend_emoji \o "\n"
            \o "**Change:** " \o sign \o Format1f(percent_change, negative) \o "% "
            \o trend_emoji \o "\n\n"
            \o (IF difference > 0
                THEN "(idea) **Insight:** Sales increased by "
                     \o Format1f(percent_change, negative)
                     \o "% - excellent performance! Maintain current strategies and consider scaling successful initiatives."
                ELSE IF difference < 0
                THEN "(warn) **Insight:** Sales decreased by "
                     \o Format1f(Abs(percent_change), FALSE)
                     \o "% - review strategies and identify areas for improvement to recover growth."
                ELSE "(i) **Insight:** Sales remained stable - consider new growth initiatives to boost performance.")
        metrics(period_label, this_period, last_period, difference) ==
            report(period_label, this_period, last_period, difference,
                   IF last_period > 0 THEN PercentTenths(difference, last_period) ELSE 0,
                   last_period > 0 /\ difference < 0,
                   IF difference > 0 THEN "(up)" ELSE IF difference < 0 THEN "(down)" ELSE "(flat)",
                   IF difference > 0 THEN "+" ELSE "")
        periods(period_label, this, last) ==
            IF this.raised THEN [raised |-> TRUE, text |-> this.message]
            ELSE IF last.raised THEN [raised |-> TRUE, text |-> last.message]
            ELSE [raised |-> FALSE,
                  text |-> metrics(period_label, this.n, last.n, this.n - last.n)]
    IN  IF HasKey(result, "total_sales_this_month")
        THEN periods("Month", FloatOf(result, "total_sales_this_month"),
                     FloatOf(result, "total_sales_last_month"))
        ELSE periods("Year", FloatOf(result, "total_sales_this_year"),
                     FloatOf(result, "total_sales_last_year"))

ComparisonFields ==
    {"total_sales_this_month", "total_sales_last_month",
     "total_sales_this_year", "total_sales_last_year"}

\* any(field in field_list for field in [...]), field_list the joined keys of all rows
IsComparison(results) ==
    \E r \in DOMAIN results : \E i \in DOMAIN results[r] : \E f \in ComparisonFields :
        Contains(f, results[r][i].key)

\* _format_with_llm: llm is the outcome of the formatting call of _call_groq
_format_with_llm(user_question, results, date_context, llm) ==
    IF IsComparison(results) THEN ComparisonBlock(results[1])
    ELSE IF llm.ok THEN [raised |-> FALSE, text |-> Strip(llm.text)]
    ELSE [raised |-> FALSE, text |-> _basic_format_results(results, date_context)]

ListThreshold == 3

\* _format_results reporting every empty result under the label of no period
format_results_label_all_time(user_question, results, date_context, llm) ==
    [raised |-> FALSE, llm_called |-> FALSE,
     text |-> "(i) No data found for your query.\n\n**Period:** All Time"]

\* _format_results; results is [none, rows], none standing for Python's None
_format_results(user_question, results, date_context, llm) ==
    LET summary(f, is_comparison) ==
            [raised |-> f.raised, llm_called |-> ~is_comparison, text |-> f.text]
    IN  IF results.none \/ Len(results.rows) = 0
        THEN [raised |-> FALSE, llm_called |-> FALSE,
              text |-> "(i) No data found for your query.\n\n**Period:** " \o date_context.label]
        ELSE IF Len(results.rows) > ListThreshold
        THEN [raised |-> FALSE, llm_called |-> FALSE,
              text |-> _format_table_results(user_question, results.rows, date_context)]
        ELSE summary(_format_with_llm(user_question, results.rows, date_context, llm),
                     IsComparison(results.rows))

-----------------------------------------------------------------------------
(* DatabaseConnection.execute_query                                         *)

\* what the database does with a statement that reaches it, db.kind: the
\* connection cannot be made ("connect_error", get_connection returns None),
\* the driver raises Error on the statement ("query_error"), or rows come back
\* ("rows")

\* execute_query(query) when the database behaves as db = [kind, rows]:
\* [raised, message, none, rows, connection]
execute_query(query, db, connection_before) ==
    LET run(v) ==
            IF v.raised
            THEN [raised |-> TRUE, message |-> v.message, none |-> FALSE, rows |-> <<>>,
                  connection |-> connection_before]
            ELSE IF db.kind = "rows"
            THEN [raised |-> FALSE, message |-> "", none |-> FALSE, rows |-> db.rows,
                  connection |-> "open"]
            ELSE [raised |-> FALSE, message |-> "", none |-> TRUE, rows |-> <<>>,
                  connection |-> "none"]
    IN  run(_validate_read_only(query))

-----------------------------------------------------------------------------
(* app.py and SalesAgent.process_query                                      *)

\* the statement of get_available_companies
CompaniesQuery ==
    "\n"
    \o "                SELECT DISTINCT company_id\n"
    \o "                FROM sales_items\n"
    \o "                WHERE company_id IS NOT NULL\n"
    \o "                ORDER BY company_id\n"
    \o "                "

FallbackCompanies == <<"922", "1336", "1387", "1415">>

\* [str(company['company_id']) for company in result]
RECURSIVE CompanyNames(_)
CompanyNames(rows) ==
    IF rows = <<>> THEN <<>>
    ELSE <<ToString(rows[1])>> \o CompanyNames(Tail(rows))

\* get_available_companies, the database behaving as db: what it returns and
\* the connection it leaves
get_available_companies(db, connection_before) ==
    LET returned(e) ==
            [companies |-> IF ~e.raised /\ ~e.none /\ Len(e.rows) > 0
                           THEN CompanyNames(e.rows) ELSE FallbackCompanies,
             reached |-> ~e.raised,
             connection |-> e.connection]
    IN  returned(execute_query(CompaniesQuery, db, connection_before))

CouldNotGenerate == "(x) Could not generate a valid query. Please rephrase your question."

SafetyViolation ==
    "(no) Safety violation: Query attempted to modify data. Only SELECT queries are allowed."

\* the lines process_query appends to a formatted report
SqlFootnote(sql) == "\n\n---\n**(sql) SQL Query Executed:**\n~~~sql\n" \o sql \o "\n~~~"

\* a handler that lets the exception through to the caller
process_query_reraise(e, local_sql_query) == [kind |-> "raised", text |-> e]

\* process_query's handler, "except Exception as e", reached with str(e) = e
\* and the local sql_query as it stands
process_query_except(e, local_sql_query) ==
    [kind |-> "returned",
     text |-> "(x) Error processing query: " \o e \o "\n\n"
              \o (IF local_sql_query.bound
                  THEN "**SQL Query:**\n~~~sql\n" \o local_sql_query.text \o "\n~~~"
                  ELSE "")]

Returned(text) == [kind |-> "returned", text |-> text]

-----------------------------------------------------------------------------
(* What the user, the model service and the database may do                 *)

Questions ==
    {"What are my total sales today?",
     "show me returns today",
     "top products by value",
     "Which customers have not purchased in last 30 days?",
     "Compare this month vs last month",
     "Who are my best customers this month?",
     "net sales today",
     "top 5 products by revenue",
     "returns today",
     "top 5 highest revenue customers"}

\* the content of a completion as the service sends it, before _call_groq strips it
Completions ==
    {"~~~sql\nSELECT COUNT(*) AS total FROM sales_invoice\n~~~",
     "SELECT SUM(total) AS total_sales FROM sales_invoice;",
     "DELETE FROM sales_invoice",
     "SELECT created_at FROM sales_invoice",
     "SELECT 1; SELECT 2",
     "I cannot answer that.",
     "SELECT s.stock_name FROM sales_invoice si JOIN sales_items si_item ON si_item.invoice_id = si.invoice_id JOIN stock s ON s.id = si_item.stock_id",
     "SELECT SUM(i.price) FROM stock s JOIN sales_items i ON i.invoice_id = s.invoice_id",
     "SELECT COUNT(*) AS total FROM sales_invoice WHERE status IN ('paid', 'unpaid', 'remaining')",
     ""}

LlmFailure == [ok |-> FALSE, text |-> ""]

\* _call_groq: a stripped completion, or an exception
LlmSqlOutcomes == {LlmFailure} \cup {[ok |-> TRUE, text |-> Strip(c)] : c \in Completions}

LlmFormatOutcomes ==
    {LlmFailure, [ok |-> TRUE, text |-> "**(chart) Sales Report**\n\nTotal: $12,345.67"]}

Num(key, t, n) == [key |-> key, t |-> t, n |-> n, s |-> ""]

Txt(key, s) == [key |-> key, t |-> "str", n |-> 0, s |-> s]

RowsSummary == << <<Num("total_sales", "float", 1234567), Num("total_invoices", "int", 4200)>> >>

RowsComparison ==
    << <<Num("total_sales_this_month", "float", 1250000),
         Num("total_sales_last_month", "float", 1000000)>> >>

RowsComparisonPartial == << <<Num("total_sales_this_month", "float", 1250000)>> >>

\* nothing sold in the last period
RowsComparisonFromZero ==
    << <<Num("total_sales_this_month", "float", 50000),
         Num("total_sales_last_month", "float", 0)>> >>

\* less sold than in the last period
RowsComparisonDown ==
    << <<Num("total_sales_this_month", "float", 75000),
         Num("total_sales_last_month", "float", 100000)>> >>

\* the last period closed below zero (credit notes outweighing sales)
RowsComparisonFromNegative ==
    << <<Num("total_sales_this_year", "float", 10000),
         Num("total_sales_last_year", "float", -5000)>> >>

RowsList ==
    << <<Txt("customer_name", "Acme"), Num("total_revenue", "float", 500000)>>,
       <<Txt("customer_name", "Birch"), Num("total_revenue", "float", 250050)>>,
       <<Txt("customer_name", "Cedar"), Num("total_revenue", "float", 100000)>>,
       <<Txt("customer_name", "Dune"), Num("total_revenue", "float", 9900)>> >>

\* what template 8.4 brings: one category and the quantity sold
RowsCategory == << <<Txt("category_name", "Tools"), Num("total_sold_qty", "float", 12000)>> >>

\* a list of products with the quantity sold and the number of invoices
RowsProducts ==
    << <<Txt("product_name", "Anvil"), Num("total_sold_qty", "float", 123400),
         Num("total_invoices", "int", 31200)>>,
       <<Txt("product_name", "Bolt"), Num("total_sold_qty", "float", 90000),
         Num("total_invoices", "int", 4500)>>,
       <<Txt("product_name", "Chisel"), Num("total_sold_qty", "float", 1200),
         Num("total_invoices", "int", 700)>>,
       <<Txt("product_name", "Drill"), Num("total_sold_qty", "float", 100),
         Num("total_invoices", "int", 100)>> >>

\* two products and their margin, in percent
RowsMargins ==
    << <<Txt("product_name", "Anvil"), Num("profit_margin", "float", 2550)>>,
       <<Txt("product_name", "Bolt"), Num("profit_margin", "float", 1825)>> >>

\* the same for four products, a list above the row-count threshold
RowsMarginsList ==
    RowsMargins
    \o << <<Txt("product_name", "Chisel"), Num("profit_margin", "float", 1200)>>,
          <<Txt("product_name", "Drill"), Num("profit_margin", "float", 990)>> >>

ResultSets ==
    {<<>>, RowsSummary, RowsComparison, RowsComparisonPartial, RowsComparisonFromZero,
     RowsComparisonFromNegative, RowsComparisonDown, RowsList, RowsCategory, RowsProducts, RowsMargins,
     RowsMarginsList}

DbOutcomes ==
    {[kind |-> "connect_error", rows |-> <<>>], [kind |-> "query_error", rows |-> <<>>]}
    \cup {[kind |-> "rows", rows |-> r] : r \in ResultSets}

\* the company_id column of the rows the companies statement may bring
CompanyResultSets == {<<>>, <<922, 1336>>}

CompanyDbOutcomes ==
    {[kind |-> "connect_error", rows |-> <<>>], [kind |-> "query_error", rows |-> <<>>]}
    \cup {[kind |-> "rows", rows |-> r] : r \in CompanyResultSets}

-----------------------------------------------------------------------------
(* The run of the Streamlit script                                          *)

Init ==
    /\ forbidden_keywords = ForbiddenKeywordsInit
    /\ candidate = ""
    /\ nfrags = 0
    /\ kw = "INSERT"
    /\ form = "upper"
    /\ phase = "build"
    /\ safe_verdict = FALSE
    /\ exec_outcome = "none"
    /\ PipeInit

\* main: available_companies = get_available_companies()
LoadCompanies(db) ==
    /\ pc = "start"
    /\ LET returned(g) ==
               /\ available_companies' = g.companies
               /\ connection' = g.connection
               /\ executed' = Append(executed, [query |-> CompaniesQuery,
                                                caller |-> "get_available_companies",
                                                reached |-> g.reached])
       IN  returned(get_available_companies(db, connection))
    /\ pc' = "idle"
    /\ UNCHANGED <<pq_message, pq_company_id, pq_date_context, pq_sql_query, pq_result,
                   pq_response, accepted, llm_calls, trace>>
    /\ UNCHANGED <<forbidden_keywords, checkVars, resolveVars, correctVars>>

\* chat_interface: the user picks a company and sends a prompt; process_query
\* starts and extracts the date context
Receive(q, c) ==
    /\ pc = "idle"
    /\ pq_message' = q
    /\ pq_company_id' = c
    /\ pq_date_context' = _extract_date_context(q)
    /\ trace' = <<"extract_date_context">>
    /\ pc' = "generate"
    /\ UNCHANGED <<connection, available_companies, pq_sql_query, pq_result, pq_response,
                   accepted, executed, llm_calls>>
    /\ UNCHANGED <<forbidden_keywords, checkVars, resolveVars, correctVars>>

\* sql_query = self._generate_sql(message, company_id, date_context)
GenerateSql(llm) ==
    /\ pc = "generate"
    /\ LET called(g) == IF g.source = "llm" THEN <<"generate_sql", "call_groq">>
                        ELSE <<"generate_sql">>
           returned(g) ==
               IF g.raised
               THEN /\ pq_response' = process_query_except(g.message, pq_sql_query)
                    /\ trace' = trace \o called(g) \o <<"except">>
                    /\ pc' = "done"
                    /\ UNCHANGED pq_sql_query
               ELSE /\ pq_sql_query' = [bound |-> TRUE, none |-> g.none, text |-> g.sql,
                                        source |-> g.source]
                    /\ trace' = trace \o called(g)
                    /\ pc' = "validate"
                    /\ UNCHANGED pq_response
           recorded(g) ==
               llm_calls' = IF g.source = "llm"
                            THEN Append(llm_calls, [purpose |-> "sql", ok |-> llm.ok,
                                                    text |-> llm.text])
                            ELSE llm_calls
           ended(g) == returned(g) /\ recorded(g)
       IN  ended(_generate_sql(pq_message, pq_company_id, llm))
    /\ UNCHANGED <<connection, available_companies, pq_message, pq_company_id,
                   pq_date_context, pq_result, accepted, executed>>
    /\ UNCHANGED <<forbidden_keywords, checkVars, resolveVars, correctVars>>

\* the validation step without its second return: a rejected statement goes on
ValidateWithoutReturn ==
    /\ pc = "validate"
    /\ IF pq_sql_query.none \/ pq_sql_query.text = ""
       THEN /\ pq_response' = Returned(CouldNotGenerate)
            /\ trace' = Append(trace, "return")
            /\ pc' = "done"
            /\ UNCHANGED accepted
       ELSE /\ accepted' = IF _is_safe_query(pq_sql_query.text)
                           THEN accepted \cup {pq_sql_query.text} ELSE accepted
            /\ trace' = Append(trace, IF _is_safe_query(pq_sql_query.text)
                                      THEN "is_safe_query:accept" ELSE "is_safe_query:reject")
            /\ pc' = "execute"
            /\ UNCHANGED pq_response
    /\ UNCHANGED <<connection, available_companies, pq_message, pq_company_id,
                   pq_date_context, pq_sql_query, pq_result, executed, llm_calls>>
    /\ UNCHANGED <<forbidden_keywords, checkVars, resolveVars, correctVars>>

\* "if not sql_query: return ..." and "if not self._is_safe_query(sql_query): return ..."
Validate ==
    /\ pc = "validate"
    /\ IF pq_sql_query.none \/ pq_sql_query.text = ""
       THEN /\ pq_response' = Returned(CouldNotGenerate)
            /\ trace' = Append(trace, "return")
            /\ pc' = "done"
            /\ UNCHANGED accepted
       ELSE IF ~_is_safe_query(pq_sql_query.text)
       THEN /\ pq_response' = Returned(SafetyViolation)
            /\ trace' = trace \o <<"is_safe_query:reject", "return">>
            /\ pc' = "done"
            /\ UNCHANGED accepted
       ELSE /\ accepted' = accepted \cup {pq_sql_query.text}
            /\ trace' = Append(trace, "is_safe_query:accept")
            /\ pc' = "execute"
            /\ UNCHANGED pq_response
    /\ UNCHANGED <<connection, available_companies, pq_message, pq_company_id,
                   pq_date_context, pq_sql_query, pq_result, executed, llm_calls>>
    /\ UNCHANGED <<forbidden_keywords, checkVars, resolveVars, correctVars>>

\* result = db.execute_query(sql_query, ())
Execute(db) ==
    /\ pc = "execute"
    /\ LET returned(e) ==
               /\ executed' = Append(executed, [query |-> pq_sql_query.text,
                                                caller |-> "process_query",
                                                reached |-> ~e.raised])
               /\ connection' = e.connection
               /\ IF e.raised
                  THEN /\ pq_response' = process_query_except(e.message, pq_sql_query)
                       /\ trace' = trace \o <<"execute_query", "except">>
                       /\ pc' = "done"
                       /\ UNCHANGED pq_result
                  ELSE /\ pq_result' = [none |-> e.none, rows |-> e.rows]
                       /\ trace' = Append(trace, "execute_query")
                       /\ pc' = "format"
                       /\ UNCHANGED pq_response
       IN  returned(execute_query(pq_sql_query.text, db, connection))
    /\ UNCHANGED <<available_companies, pq_message, pq_company_id, pq_date_context,
                   pq_sql_query, accepted, llm_calls>>
    /\ UNCHANGED <<forbidden_keywords, checkVars, resolveVars, correctVars>>

\* formatted_response = self._format_results(...), the footnote, the return
Format(llm) ==
    /\ pc = "format"
    /\ LET called(f) == IF f.llm_called THEN <<"format_results", "call_groq">>
                        ELSE <<"format_results">>
           returned(f) ==
               IF f.raised
               THEN /\ pq_response' = process_query_except(f.text, pq_sql_query)
                    /\ trace' = trace \o called(f) \o <<"except">>
               ELSE /\ pq_response' = Returned(f.text \o SqlFootnote(pq_sql_query.text))
                    /\ trace' = trace \o called(f) \o <<"return">>
           recorded(f) ==
               llm_calls' = IF f.llm_called
                            THEN Append(llm_calls, [purpose |-> "format", ok |-> llm.ok,
                                                    text |-> llm.text])
                            ELSE llm_calls
           ended(f) == returned(f) /\ recorded(f)
       IN  ended(_format_results(pq_message, pq_result, pq_date_context, llm))
    /\ pc' = "done"
    /\ UNCHANGED <<connection, available_companies, pq_message, pq_company_id,
                   pq_date_context, pq_sql_query, pq_result, accepted, executed>>
    /\ UNCHANGED <<forbidden_keywords, checkVars, resolveVars, correctVars>>

\* the response is shown and the script ends; the next interaction runs it
\* again from the top, the module-level db and its connection living on
Rerun ==
    /\ pc = "done"
    /\ pc' = "start"
    /\ available_companies' = <<>>
    /\ pq_message' = ""
    /\ pq_company_id' = ""
    /\ pq_date_context' = NoDateContext
    /\ pq_sql_query' = Unbound
    /\ pq_result' = NoResult
    /\ pq_response' = Pending
    /\ accepted' = {}
    /\ executed' = <<>>
    /\ llm_calls' = <<>>
    /\ trace' = <<>>
    /\ UNCHANGED connection
    /\ UNCHANGED <<forbidden_keywords, checkVars, resolveVars, correctVars>>

Next ==
    \/ \E db \in CompanyDbOutcomes : LoadCompanies(db)
    \/ \E q \in Questions : \E c \in Range(available_companies) : Receive(q, c)
    \/ \E llm \in LlmSqlOutcomes : GenerateSql(llm)
    \/ Validate
    \/ \E db \in DbOutcomes : Execute(db)
    \/ \E llm \in LlmFormatOutcomes : Format(llm)
    \/ Rerun

Spec == Init /\ [][Next]_vars

-----------------------------------------------------------------------------
(* Questions put to the Date Context Extractor and to _generate_sql         *)

MaxPhrases == 2

\* the phrases questions are composed of: the date phrases of
\* _extract_date_context, phrases of the templates and of quick_map, and
\* words that complete a phrase only together with their neighbour
Phrases ==
    {"today", "yesterday", "this month", "last month", "This Year", "last year",
     "last 90 days", "last 3 months", "last 12 months", "last year trend",
     "Net Sales", "total sales", "returns", "show me sales",
     "top 5 highest revenue customers", "top 5 products by revenue",
     "top products by value", "product with highest revenue", "most profitable product"}

\* the company the questions are asked for (the first one the picker offers)
ResolveCompanies == {FallbackCompanies[1]}

\* the outcomes of the synthesis call a resolution is tried with
ResolveLlmOutcomes == {LlmFailure, [ok |-> TRUE, text |-> "SELECT 1"]}

\* the user's question grows by one phrase
AppendPhrase(p) ==
    /\ rq_stage = "compose"
    /\ rq_nphrases < MaxPhrases
    /\ rq_question' = IF rq_question = "" THEN p ELSE rq_question \o " " \o p
    /\ rq_nphrases' = rq_nphrases + 1
    /\ UNCHANGED <<rq_stage, rq_company_id, rq_date_context, rq_generated>>
    /\ UNCHANGED <<forbidden_keywords, checkVars, pipeVars, correctVars>>

\* the first two statements of process_query on the question:
\* date_context = self._extract_date_context(message)
\* sql_query = self._generate_sql(message, company_id, date_context)
ResolveCall(c, llm) ==
    /\ rq_stage = "compose"
    /\ rq_company_id' = c
    /\ rq_date_context' = _extract_date_context(rq_question)
    /\ rq_generated' = _generate_sql(rq_question, c, llm)
    /\ rq_stage' = "resolved"
    /\ UNCHANGED <<rq_question, rq_nphrases>>
    /\ UNCHANGED <<forbidden_keywords, checkVars, pipeVars, correctVars>>

ResolveNext ==
    \/ \E p \in Phrases : AppendPhrase(p)
    \/ \E c \in ResolveCompanies : \E llm \in ResolveLlmOutcomes : ResolveCall(c, llm)

SpecResolve == Init /\ [][ResolveNext]_vars

-----------------------------------------------------------------------------
(* Completions put to the synthesizer's post-processing                     *)

MaxParts == 3

\* the parts completions are composed of: the mistakes the corrections look
\* for (a code fence, the legacy status filter, name columns, a join on the
\* invoice id only, commas left over) and the text around them
Parts ==
    {"~~~sql\n", "SELECT ", "c.name", "pc.name", ",", " ",
     " FROM contacts c",
     " FROM products_category pc WHERE pc.category_id = 1",
     " WHERE " \o LegacyStatusFilter,
     " FROM stock s JOIN sales_items ON invoice_id = si.invoice_id"}

\* the completion grows by one part
AppendPart(p) ==
    /\ cp_stage = "compose"
    /\ cp_nparts < MaxParts
    /\ cp_sql' = cp_sql \o p
    /\ cp_nparts' = cp_nparts + 1
    /\ UNCHANGED <<cp_stage, cp_fixed, cp_processed>>
    /\ UNCHANGED <<forbidden_keywords, checkVars, pipeVars, resolveVars>>

\* the corrections are applied to the completion
CorrectCall ==
    /\ cp_stage = "compose"
    /\ cp_fixed' = <<_fix_common_sql_errors(cp_sql)>>
    /\ cp_processed' = <<PostProcessCompletion(cp_sql)>>
    /\ cp_stage' = "once"
    /\ UNCHANGED <<cp_sql, cp_nparts>>
    /\ UNCHANGED <<forbidden_keywords, checkVars, pipeVars, resolveVars>>

\* the corrections are applied to their own output
CorrectAgain ==
    /\ cp_stage = "once"
    /\ cp_fixed' = Append(cp_fixed, _fix_common_sql_errors(cp_fixed[1]))
    /\ cp_processed' = Append(cp_processed, PostProcessCompletion(cp_processed[1]))
    /\ cp_stage' = "twice"
    /\ UNCHANGED <<cp_sql, cp_nparts>>
    /\ UNCHANGED <<forbidden_keywords, checkVars, pipeVars, resolveVars>>

CorrectNext ==
    \/ \E p \in Parts : AppendPart(p)
    \/ CorrectCall
    \/ CorrectAgain

SpecCorrect == Init /\ [][CorrectNext]_vars

-----------------------------------------------------------------------------
(* Properties                                                               *)

\* the characters a keyword or an identifier is made of
WordChars ==
    LowerLetters \cup UpperLetters \cup {"0", "1", "2", "3", "4", "5", "6", "7", "8", "9", "_"}

\* position i of s lies inside a quoted literal
InLiteral(s, i) == Cardinality({j \in 1..(i - 1) : At(s, j) = "'"}) % 2 = 1

\* the keyword k stands at position i of s as a token of its own: in any
\* letter case, no identifier character next to it, outside a literal
BareTokenAt(s, k, i) ==
    /\ i + Len(k) - 1 <= Len(s)
    /\ Upper(SubSeq(s, i, i + Len(k) - 1)) = k
    /\ (i = 1 \/ At(s, i - 1) \notin WordChars)
    /\ (i + Len(k) > Len(s) \/ At(s, i + Len(k)) \notin WordChars)
    /\ ~InLiteral(s, i)

HasBareKeyword(s) ==
    \E k \in Range(ForbiddenKeywordsInit) : \E i \in 1..Len(s) : BareTokenAt(s, k, i)

\* no forbidden keyword occurs in s, not even inside a longer word or a literal
NoKeywordText(s) == \A k \in Range(ForbiddenKeywordsInit) : ~Contains(k, Upper(s))

StartsSelect(s) == StartsWith(Strip(Upper(s)), "SELECT")

Semicolons(s) == {i \in 1..Len(s) : At(s, i) = ";"}

\* s holds no semicolon, or one only, as its last character
OnlyFinalSemicolon(s) == Semicolons(s) \subseteq {Len(s)}

\* s holds one semicolon and nothing but whitespace (if anything) after it
TerminatedOnce(s) ==
    /\ Cardinality(Semicolons(s)) = 1
    /\ \A i \in Semicolons(s) : \A j \in (i + 1)..Len(s) : At(s, j) \in Whitespace

\* every "company_id = " of the statement is followed by the value c, and there is one
FiltersOnCompany(query, c) ==
    LET at(i) == i + 12 <= Len(query) /\ SubSeq(query, i, i + 12) = "company_id = "
    IN  /\ \E i \in 1..Len(query) : at(i)
        /\ \A i \in 1..Len(query) :
               at(i) => /\ i + 12 + Len(c) <= Len(query)
                        /\ SubSeq(query, i + 13, i + 12 + Len(c)) = c
                        /\ (i + 13 + Len(c) > Len(query)
                            \/ At(query, i + 13 + Len(c)) \notin WordChars)

\* C1: every SQL statement passed to db.execute_query was accepted by
\* _is_safe_query before, on every code path
C1_EveryExecutedStatementWasValidated ==
    \A i \in DOMAIN executed : executed[i].query \in accepted

C1_Witness ==
    \E i \in DOMAIN executed :
        /\ executed[i].caller = "get_available_companies"
        /\ executed[i].reached
        /\ executed[i].query \notin accepted

\* C2: when _is_safe_query rejects the statement of a request, db.execute_query
\* is not called in that request and the response is the safety-violation
\* message, whatever produced the statement
C2_RejectedStatementIsNeverExecuted ==
    (/\ pc \in {"execute", "format", "done"}
     /\ pq_sql_query.bound /\ ~pq_sql_query.none /\ pq_sql_query.text # ""
     /\ ~_is_safe_query(pq_sql_query.text))
    => /\ pc = "done"
       /\ pq_response = Returned(SafetyViolation)
       /\ "execute_query" \notin Range(trace)
       /\ \A i \in DOMAIN executed : executed[i].caller # "process_query"

C2_Witness ==
    /\ pc = "done"
    /\ pq_sql_query.source = "llm"
    /\ "is_safe_query:reject" \in Range(trace)
    /\ pq_response.text = SafetyViolation

\* C3: process_query always ends by returning text, never by raising; a
\* failure of a stage ends in the error message of the handler
C3_ProcessQueryAlwaysReturnsText ==
    /\ pq_response.kind \in {"pending", "returned"}
    /\ pc = "done" =>
           /\ pq_response.kind = "returned"
           /\ pq_response.text # ""
           /\ "except" \in Range(trace) =>
                  StartsWith(pq_response.text, "(x) Error processing query: ")

C3_Witness ==
    /\ pc = "done"
    /\ "except" \in Range(trace)
    /\ "format_results" \in Range(trace)
    /\ pq_response.kind = "returned"

\* C4: the statement a template yields for company c filters on company_id = c
C4_TemplateStatementFiltersOnItsCompany ==
    \A i \in DOMAIN executed :
        (executed[i].caller = "process_query" /\ pq_sql_query.source = "template")
        => FiltersOnCompany(executed[i].query, pq_company_id)

C4_Witness ==
    /\ pc = "done"
    /\ pq_message = "top products by value"
    /\ pq_company_id = "922"
    /\ \E i \in DOMAIN executed :
           /\ executed[i].caller = "process_query"
           /\ executed[i].reached
           /\ Contains("company_id = 1336", executed[i].query)

\* C5: _is_safe_query rejects every statement holding a forbidden keyword as
\* a bare token, in any letter case, at any position
C5_BareKeywordIsRejected ==
    (phase = "validated" /\ HasBareKeyword(candidate)) => safe_verdict = FALSE

C5_Witness ==
    /\ phase = "validated"
    /\ form = "lower"
    /\ StartsSelect(candidate)
    /\ HasBareKeyword(candidate)
    /\ safe_verdict = FALSE

\* C6: _is_safe_query accepts every single-statement SELECT that holds no
\* forbidden keyword as a bare token, a forbidden word inside a literal or
\* inside a longer identifier included
C6_SelectWithoutBareKeywordIsAccepted ==
    (/\ phase = "validated"
     /\ StartsSelect(candidate)
     /\ OnlyFinalSemicolon(candidate)
     /\ ~HasBareKeyword(candidate))
    => safe_verdict = TRUE

C6_Witness ==
    /\ phase = "validated"
    /\ candidate = "SELECT created_at"
    /\ safe_verdict = FALSE

\* C7: _is_safe_query accepts only statements with no semicolon but an
\* optional last one, and accepts a keyword-free SELECT whose only semicolon
\* ends it, whitespace after that semicolon or not
C7_SemicolonRuleAsClaimed ==
    phase = "validated" =>
        /\ safe_verdict = TRUE => OnlyFinalSemicolon(candidate)
        /\ (/\ StartsSelect(candidate)
            /\ NoKeywordText(candidate)
            /\ TerminatedOnce(candidate)) => safe_verdict = TRUE

\* C7 as the code has it: the optional semicolon must be the very last
\* character of the string passed; whitespace after it makes the validator reject
C7_SemicolonRule ==
    phase = "validated" =>
        /\ safe_verdict = TRUE => OnlyFinalSemicolon(candidate)
        /\ (/\ StartsSelect(candidate)
            /\ NoKeywordText(candidate)
            /\ OnlyFinalSemicolon(candidate)) => safe_verdict = TRUE
        /\ (/\ TerminatedOnce(candidate)
            /\ ~OnlyFinalSemicolon(candidate)) => safe_verdict = FALSE

C7_Witness ==
    /\ phase = "validated"
    /\ StartsSelect(candidate)
    /\ NoKeywordText(candidate)
    /\ TerminatedOnce(candidate)
    /\ ~OnlyFinalSemicolon(candidate)
    /\ safe_verdict = FALSE

\* C8: a call of _is_safe_query ends with accept or reject for every input
\* string and changes nothing but the verdict it hands back
C8_ValidatorIsPureAndTotal ==
    [][(phase = "build" /\ phase' = "validated")
       => /\ safe_verdict' \in BOOLEAN
          /\ forbidden_keywords' = forbidden_keywords
          /\ candidate' = candidate
          /\ exec_outcome' = exec_outcome
          /\ UNCHANGED pipeVars]_vars

C8_Witness ==
    /\ phase = "validated"
    /\ nfrags > 0
    /\ Strip(candidate) = ""
    /\ safe_verdict = FALSE

\* C9: db.execute_query refuses every statement that is no SELECT or holds a
\* forbidden keyword of the validator's list
C9_ExecutorRefusesWhatTheValidatorWould ==
    (/\ phase = "executed"
     /\ (~StartsSelect(candidate) \/ HasBareKeyword(candidate)))
    => exec_outcome = "blocked"

C9_Witness ==
    /\ phase = "executed"
    /\ kw = "MERGE"
    /\ HasBareKeyword(candidate)
    /\ ~StartsSelect(candidate)
    /\ exec_outcome = "submitted"

\* C10: when the executor fails on a validated statement, the response is an
\* error that shows the statement, never a 'no data' result
C10_ExecutorFailureIsReportedAsError ==
    (/\ pc = "done"
     /\ "execute_query" \in Range(trace)
     /\ pq_result.none)
    => /\ StartsWith(pq_response.text, "(x) Error")
       /\ Contains(pq_sql_query.text, pq_response.text)
       /\ ~Contains("No data found", pq_response.text)

C10_Witness ==
    /\ pc = "done"
    /\ "execute_query" \in Range(trace)
    /\ pq_result.none
    /\ StartsWith(pq_response.text, "(i) No data found for your query.")
    /\ Contains(SqlFootnote(pq_sql_query.text), pq_response.text)

\* the fixed 'no data' message for a period label
NoDataMessage(label) == "(i) No data found for your query.\n\n**Period:** " \o label

\* process_query has ended after the executor returned an empty result set
EndedOnEmptyResult ==
    /\ pc = "done"
    /\ "format_results" \in Range(trace)
    /\ ~pq_result.none
    /\ pq_result.rows = <<>>

\* C11 as claimed: on an empty result set the response of process_query is
\* exactly the 'no data' message with the label of the date context ('Today'
\* for 'returns today'), and is no error
C11_EmptyResultIsExactlyNoData ==
    EndedOnEmptyResult =>
        /\ pq_response = Returned(NoDataMessage(pq_date_context.label))
        /\ pq_message = "returns today" => pq_date_context.label = "Today"
        /\ "except" \notin Range(trace)

\* C11 amended: on an empty result set the response of process_query is the
\* 'no data' message with the label of the date context ('Today' for 'returns
\* today') followed by the footnote showing the executed statement, returned
\* on the normal path and not by the error handler
C11_EmptyResultIsNoDataWithFootnote ==
    EndedOnEmptyResult =>
        /\ pq_response = Returned(NoDataMessage(pq_date_context.label)
                                  \o SqlFootnote(pq_sql_query.text))
        /\ pq_message = "returns today" => pq_date_context.label = "Today"
        /\ "except" \notin Range(trace)
        /\ ~StartsWith(pq_response.text, "(x)")

C11_Witness ==
    /\ EndedOnEmptyResult
    /\ pq_message = "returns today"
    /\ pq_sql_query.source = "template"
    /\ StartsWith(pq_response.text, NoDataMessage("Today"))

\* the synthesis call of this request failed or brought an empty completion
SynthesisCallCameBackEmpty ==
    \E i \in DOMAIN llm_calls :
        /\ llm_calls[i].purpose = "sql"
        /\ ~llm_calls[i].ok \/ llm_calls[i].text = ""

\* C12: when the model call for SQL synthesis fails or returns an empty
\* completion, the synthesizer returns no statement, process_query answers
\* 'could not generate a valid query', and the executor is not invoked with
\* any statement
C12_FailedSynthesisIsRefused ==
    SynthesisCallCameBackEmpty =>
        /\ pq_sql_query.bound
        /\ pq_sql_query.none \/ pq_sql_query.text = ""
        /\ \A i \in DOMAIN executed : executed[i].caller # "process_query"
        /\ "execute_query" \notin Range(trace)
        /\ pc \in {"validate", "done"}
        /\ pc = "done" => pq_response = Returned(CouldNotGenerate)

C12_Witness ==
    /\ pc = "done"
    /\ \E i \in DOMAIN llm_calls : llm_calls[i].purpose = "sql" /\ ~llm_calls[i].ok
    /\ pq_sql_query.none
    /\ pq_response = Returned(CouldNotGenerate)

\* the phrases of the Date Context Extractor in their fixed order, each with
\* the label of its context
DatePhraseOrder ==
    << [phrases |-> {"today"}, label |-> "Today"],
       [phrases |-> {"yesterday"}, label |-> "Yesterday"],
       [phrases |-> {"this month"}, label |-> "This Month"],
       [phrases |-> {"last month"}, label |-> "Last Month"],
       [phrases |-> {"this year"}, label |-> "This Year"],
       [phrases |-> {"last year"}, label |-> "Last Year"],
       [phrases |-> {"last 90 days", "last 3 months"}, label |-> "Last 90 Days"],
       [phrases |-> {"last 12 months", "last year trend"}, label |-> "Last 12 Months"] >>

\* the places of DatePhraseOrder with a phrase that occurs in the lower-cased question
DatePhraseHits(q) ==
    {k \in DOMAIN DatePhraseOrder : \E p \in DatePhraseOrder[k].phrases : Contains(p, Lower(q))}

\* C13: the Date Context Extractor returns the context of the first phrase, in
\* the order today, yesterday, this month, last month, this year, last year,
\* last 90 days / last 3 months, last 12 months / last year trend, that occurs
\* in the lower-cased question, and 'All Time' with an empty predicate when
\* none occurs
C13_FirstDatePhraseWins ==
    rq_stage = "resolved" =>
        IF DatePhraseHits(rq_question) = {}
        THEN rq_date_context = [label |-> "All Time", filter |-> ""]
        ELSE /\ \E k \in DatePhraseHits(rq_question) :
                    /\ \A j \in DatePhraseHits(rq_question) : k <= j
                    /\ rq_date_context.label = DatePhraseOrder[k].label
             /\ StartsWith(rq_date_context.filter, "AND si.invoice_date ")

C13_Witness ==
    /\ rq_stage = "resolved"
    /\ Contains("last 3 months", Lower(rq_question))
    /\ Contains("this year", Lower(rq_question))
    /\ rq_question # Lower(rq_question)
    /\ rq_date_context.label = "This Year"

\* the places, in source order, of the templates whose phrase set matches the
\* lower-cased question
TemplateHits(q, c) ==
    {k \in 1..NumTemplates : Template(k, Lower(q), c) # NoMatch}

\* C14: _generate_sql returns the template of the first phrase set, in table
\* order, that matches the question, and the language model is called to
\* synthesize SQL exactly when no phrase set matches
C14_FirstMatchingPhraseSetWins ==
    rq_stage = "resolved" =>
        /\ TemplateHits(rq_question, rq_company_id) # {} =>
               /\ ~rq_generated.raised
               /\ rq_generated.source = "template"
               /\ \E k \in TemplateHits(rq_question, rq_company_id) :
                      /\ \A j \in TemplateHits(rq_question, rq_company_id) : k <= j
                      /\ rq_generated.sql = Template(k, Lower(rq_question), rq_company_id)
        /\ rq_generated.source = "llm" <=> TemplateHits(rq_question, rq_company_id) = {}

C14_Witness ==
    /\ rq_stage = "resolved"
    /\ rq_question = "show me sales today"
    /\ 7 \in TemplateHits(rq_question, rq_company_id)
    /\ rq_generated.raised
    /\ rq_generated.message = GetSimpleQueryError

\* the row limit a statement ends with is n
LimitsTo(query, n) ==
    /\ Contains("LIMIT " \o ToString(n) \o ";", query)
    /\ \A m \in {1, 10} \ {n} : ~Contains("LIMIT " \o ToString(m) \o ";", query)

\* C15: for a question containing 'top 5' that resolves to a template, the
\* statement sent to the executor limits the result to 5 rows, not to the
\* template's default
C15_TopNOverridesTheDefaultLimit ==
    \A i \in DOMAIN executed :
        (/\ executed[i].caller = "process_query"
         /\ pq_sql_query.source = "template"
         /\ Contains("top 5", Lower(pq_message)))
        => LimitsTo(executed[i].query, 5)

C15_Witness ==
    /\ pq_message = "top 5 highest revenue customers"
    /\ pq_sql_query.source = "template"
    /\ \E i \in DOMAIN executed :
           /\ executed[i].caller = "process_query"
           /\ executed[i].reached
           /\ LimitsTo(executed[i].query, 10)

\* the column name matches a quantity/count keyword and a currency keyword
CountAndCurrencyName(key) ==
    /\ KeyHas({"qty", "quantity", "units", "sold_qty", "count", "invoices", "orders"}, key)
    /\ KeyHas({"revenue", "amount", "total", "price", "cost", "profit", "value", "sales"}, key)

\* the response was written by _format_table_results or _basic_format_results
DeterministicallyFormatted ==
    /\ pc = "done"
    /\ "format_results" \in Range(trace)
    /\ "except" \notin Range(trace)
    /\ ~pq_result.none
    /\ \/ Len(pq_result.rows) > ListThreshold
       \/ /\ Len(pq_result.rows) > 0
          /\ \E i \in DOMAIN llm_calls : llm_calls[i].purpose = "format" /\ ~llm_calls[i].ok

\* the field is shown with a currency symbol in the text
ShownAsCurrency(field, text) ==
    \/ Contains("**" \o FormattedKey(field.key) \o ":** $", text)
    \/ Contains(field.key \o ": $", text)

\* the field is shown as an integer count in the text
ShownAsCount(field, text) ==
    \E tail \in {" units\n", "\n", " | "} :
        \/ Contains("**" \o FormattedKey(field.key) \o ":** " \o FormatIntCommas(field.n) \o tail,
                    text)
        \/ Contains(field.key \o ": " \o FormatIntCommas(field.n) \o tail, text)

\* C16: in the deterministic formatters a numeric column whose name matches
\* both a quantity/count keyword and a currency keyword is rendered as an
\* integer count and never with a currency symbol
C16_CountNamedColumnIsNeverCurrency ==
    DeterministicallyFormatted =>
        \A r \in DOMAIN pq_result.rows : \A i \in DOMAIN pq_result.rows[r] :
            (IsNumber(pq_result.rows[r][i]) /\ CountAndCurrencyName(pq_result.rows[r][i].key))
            => /\ ~ShownAsCurrency(pq_result.rows[r][i], pq_response.text)
               /\ ShownAsCount(pq_result.rows[r][i], pq_response.text)

C16_Witness ==
    /\ DeterministicallyFormatted
    /\ pq_result.rows = RowsCategory
    /\ Contains("($) **Total Sold Qty:** $120.00\n", pq_response.text)

\* process_query has ended on a one-to-three-row result with both metrics of a
\* month or year comparison
EndedOnComparison ==
    /\ pc = "done"
    /\ "format_results" \in Range(trace)
    /\ ~pq_result.none
    /\ Len(pq_result.rows) \in 1..ListThreshold
    /\ \E p \in {"month", "year"} :
           /\ HasKey(pq_result.rows[1], "total_sales_this_" \o p)
           /\ HasKey(pq_result.rows[1], "total_sales_last_" \o p)
           /\ IsNumber(Field(pq_result.rows[1], "total_sales_this_" \o p))
           /\ IsNumber(Field(pq_result.rows[1], "total_sales_last_" \o p))

ThisPeriod(row) ==
    IF HasKey(row, "total_sales_this_month") THEN Field(row, "total_sales_this_month").n
    ELSE Field(row, "total_sales_this_year").n

LastPeriod(row) ==
    IF HasKey(row, "total_sales_this_month") THEN Field(row, "total_sales_last_month").n
    ELSE Field(row, "total_sales_last_year").n

\* difference / last * 100 to one decimal, as text, 0.0 for last = 0
PercentChangeText(this, last) ==
    IF last = 0 THEN "0.0"
    ELSE Format1f(PercentTenths(Abs(this - last), Abs(last)),
                  (this - last < 0) # (last < 0) /\ this # last)

\* the lines of the comparison block that show the difference and the change
ComparisonLines(this, last) ==
    "**Difference:** " \o (IF this - last > 0 THEN "+" ELSE "")
    \o "$" \o FormatCommas2f(Abs(this - last)) \o " "
    \o (IF this - last > 0 THEN "(up)" ELSE IF this - last < 0 THEN "(down)" ELSE "(flat)")
    \o "\n**Change:** " \o (IF this - last > 0 THEN "+" ELSE "")
    \o PercentChangeText(this, last) \o "% "

\* C17: the comparison block shows difference = this - last and
\* percent_change = difference / last * 100 for every last other than 0,
\* negative last included, and 0 for last = 0, without raising
C17_PercentChangeOfEveryNonZeroLast ==
    EndedOnComparison =>
        /\ "except" \notin Range(trace)
        /\ Contains(ComparisonLines(ThisPeriod(pq_result.rows[1]), LastPeriod(pq_result.rows[1])),
                    pq_response.text)

C17_Witness ==
    /\ EndedOnComparison
    /\ pq_result.rows = RowsComparisonFromNegative
    /\ Contains("**Change:** +0.0% (up)", pq_response.text)

\* C18: a question containing 'net sales today' ('net sales this month', 'net
\* sales this year') resolves to the net-sales template of that period, not to
\* the total-sales template whose phrase it contains
C18_NetSalesIsNotShadowed ==
    rq_stage = "resolved" =>
        /\ Contains("net sales today", Lower(rq_question)) =>
               /\ rq_generated.source = "template"
               /\ rq_generated.sql = T_2_7(Lower(rq_question), rq_company_id)
               /\ rq_generated.sql # T_2_1(Lower(rq_question), rq_company_id)
        /\ (Contains("net sales this month", Lower(rq_question))
            /\ ~Contains("today", Lower(rq_question))) =>
               /\ rq_generated.source = "template"
               /\ rq_generated.sql = T_2_8(Lower(rq_question), rq_company_id)
        /\ (Contains("net sales this year", Lower(rq_question))
            /\ ~Contains("today", Lower(rq_question))
            /\ ~Contains("this month", Lower(rq_question))) =>
               /\ rq_generated.source = "template"
               /\ rq_generated.sql = T_2_9(Lower(rq_question), rq_company_id)

C18_Witness ==
    /\ rq_stage = "resolved"
    /\ rq_question = "Net Sales today"
    /\ rq_generated.source = "template"
    /\ rq_generated.sql = T_2_1(Lower(rq_question), rq_company_id)
    /\ T_2_7(Lower(rq_question), rq_company_id) # NoMatch

\* the statement combines the stock table with the sales_items table
CombinesStockAndSalesItems(sql) ==
    /\ Contains("sales_items", Lower(sql))
    /\ \/ Contains("from stock ", Lower(sql))
       \/ Contains("join stock ", Lower(sql))

\* the statement equates the product id of sales_items with that of stock
JoinsOnProductId(sql) ==
    \E item \in {"sales_items", "si_item", "i"} : \E st \in {"s", "stock"} :
        \/ Contains(item \o ".product_id = " \o st \o ".product_id", Lower(sql))
        \/ Contains(st \o ".product_id = " \o item \o ".product_id", Lower(sql))

\* C19: every template statement that combines stock with sales_items joins
\* sales_items on the product id as well as on the invoice id
C19_TemplatesJoinOnInvoiceAndProduct ==
    (/\ rq_stage = "resolved"
     /\ rq_generated.source = "template"
     /\ CombinesStockAndSalesItems(rq_generated.sql))
    => /\ Contains("invoice_id = si.invoice_id", Lower(rq_generated.sql))
       /\ JoinsOnProductId(rq_generated.sql)

C19_Witness ==
    /\ rq_stage = "resolved"
    /\ rq_question = "product with highest revenue"
    /\ rq_generated.sql = T_8_6(Lower(rq_question), rq_company_id)
    /\ CombinesStockAndSalesItems(rq_generated.sql)
    /\ Contains("JOIN sales_items si_item ON si_item.invoice_id = si.invoice_id\n",
                rq_generated.sql)
    /\ ~JoinsOnProductId(rq_generated.sql)

\* process_query holds a statement the synthesizer returned
SynthesizedStatement ==
    /\ pq_sql_query.bound
    /\ pq_sql_query.source = "llm"
    /\ ~pq_sql_query.none
    /\ pq_sql_query.text # ""

\* C20: every statement the synthesizer returns that references both
\* sales_items and stock contains a product-id equality between the two,
\* whatever alias or letter case the join was written with
C20_SynthesizedJoinHasProductId ==
    (/\ SynthesizedStatement
     /\ Contains("sales_items", Lower(pq_sql_query.text))
     /\ Contains("stock", Lower(pq_sql_query.text)))
    => JoinsOnProductId(pq_sql_query.text)

C20_Witness ==
    /\ SynthesizedStatement
    /\ pq_sql_query.text
         = "SELECT SUM(i.price) FROM stock s JOIN sales_items i ON i.invoice_id = s.invoice_id"
    /\ "execute_query" \in Range(trace)
    /\ ~JoinsOnProductId(pq_sql_query.text)

\* C21: a statement returned by the synthesizer never still contains the
\* legacy filter status IN ('paid', 'unpaid', 'remaining'): it is rewritten
\* before the statement reaches the Safety Validator
C21_LegacyStatusFilterIsRewritten ==
    SynthesizedStatement => ~Contains(LegacyStatusFilter, pq_sql_query.text)

C21_Witness ==
    /\ SynthesizedStatement
    /\ Contains(LegacyStatusFilter, pq_sql_query.text)
    /\ "is_safe_query:accept" \in Range(trace)
    /\ \E i \in DOMAIN executed :
           /\ executed[i].caller = "process_query"
           /\ executed[i].reached
           /\ Contains(LegacyStatusFilter, executed[i].query)

\* C22: the synthesizer's post-processing is idempotent: applying
\* _fix_common_sql_errors, and the fence stripping and product-id injection
\* of _generate_sql_with_llm, to their own output yields the same string,
\* also for inputs with runs of three or more commas
C22_PostProcessingIsIdempotent ==
    cp_stage = "twice" =>
        /\ cp_fixed[2] = cp_fixed[1]
        /\ cp_processed[2] = cp_processed[1]

C22_Witness ==
    /\ cp_stage = "twice"
    /\ Contains(",,,", cp_sql)
    /\ cp_fixed[1] # cp_sql
    /\ cp_fixed[2] # cp_fixed[1]

\* the comparisons a DateContext predicate makes on the invoice date, e.g.
\* <<">= CURDATE()", "< CURDATE() + INTERVAL 1 DAY">> for Today
RECURSIVE DateBounds(_)
DateBounds(filter) ==
    LET column == "AND si.invoice_date "
        piece(rest, next) ==
            IF next = 0 THEN <<Strip(rest)>>
            ELSE <<Strip(SubSeq(rest, 1, next - 1))>> \o DateBounds(SubSeq(rest, next, Len(rest)))
        after(rest) == piece(rest, FindAny(rest, {column}, 1))
    IN  IF StartsWith(filter, column) THEN after(SubSeq(filter, Len(column) + 1, Len(filter)))
        ELSE <<>>

\* the statement makes every comparison of the predicate on an invoice date
RestrictsToPeriod(sql, filter) ==
    \A i \in DOMAIN DateBounds(filter) : Contains("invoice_date " \o DateBounds(filter)[i], sql)

ResolvedFromTemplate ==
    /\ rq_stage = "resolved"
    /\ ~rq_generated.raised
    /\ ~rq_generated.none
    /\ rq_generated.source = "template"

\* C23: when a question resolves to a template and its DateContext has a
\* non-empty predicate, the statement restricts rows to that same period
C23_TemplateStatementFiltersThePeriod ==
    (ResolvedFromTemplate /\ rq_date_context.filter # "") =>
        RestrictsToPeriod(rq_generated.sql, rq_date_context.filter)

C23_Witness ==
    /\ ResolvedFromTemplate
    /\ rq_question = "top 5 highest revenue customers this month"
    /\ rq_date_context.label = "This Month"
    /\ ~Contains("invoice_date", rq_generated.sql)

\* a write keyword of the executor's list stands in s as a word of its own,
\* outside quoted literals
HasBareWriteKeyword(s) ==
    \E i \in DOMAIN write_keywords : \E j \in 1..Len(s) : BareTokenAt(s, write_keywords[i], j)

\* C24: the executor's own check never rejects for a forbidden word that
\* only stands inside a literal, and never misses a write keyword used as a
\* keyword in any statement of the input, first word of its statement or not
C24_ExecutorCheckMissesNoWriteKeyword ==
    phase = "executed" =>
        (exec_outcome = "blocked" <=> HasBareWriteKeyword(candidate))

C24_Witness ==
    /\ phase = "executed"
    /\ kw = "DELETE" /\ form = "upper"
    /\ candidate = "SELECT  " \o kw
    /\ HasBareWriteKeyword(candidate)
    /\ exec_outcome = "submitted"

\* the field is shown as a percentage with two decimals in the text
ShownAsPercent(field, text) ==
    \/ Contains("**" \o FormattedKey(field.key) \o ":** " \o Format2f(field.n) \o "%\n", text)
    \/ \E tail \in {"\n", " | "} :
           Contains(field.key \o ": " \o Format2f(field.n) \o "%" \o tail, text)

\* C25: in every deterministic formatter a numeric column whose name
\* contains 'percent' or 'margin' is rendered as a percentage with two
\* decimals and a % suffix, also when the name contains a currency or count
\* keyword as well
C25_PercentRuleComesFirst ==
    DeterministicallyFormatted =>
        \A r \in DOMAIN pq_result.rows : \A i \in DOMAIN pq_result.rows[r] :
            (IsNumber(pq_result.rows[r][i])
             /\ KeyHas({"percent", "margin"}, pq_result.rows[r][i].key))
            => ShownAsPercent(pq_result.rows[r][i], pq_response.text)

C25_Witness ==
    /\ DeterministicallyFormatted
    /\ pq_result.rows = RowsMarginsList
    /\ Contains("($) **Profit Margin:** $25.50\n", pq_response.text)
    /\ ~Contains("%", pq_response.text)

\* the formatting call of _call_groq was made in this request
FormatCalls == {i \in DOMAIN llm_calls : llm_calls[i].purpose = "format"}

\* C26: the language model is asked to author the response only for a result
\* of exactly one row that is no comparison; results of two or more rows and
\* comparisons are rendered deterministically, and when the call fails the
\* deterministic formatter's output is returned
C26_ModelAuthorsOnlySingleRowSummaries ==
    (pc = "done" /\ "format_results" \in Range(trace)) =>
        /\ FormatCalls # {} => (Len(pq_result.rows) = 1 /\ ~IsComparison(pq_result.rows))
        /\ \A i \in FormatCalls :
               ~llm_calls[i].ok =>
                   StartsWith(pq_response.text,
                              _basic_format_results(pq_result.rows, pq_date_context))

C26_Witness ==
    /\ pc = "done"
    /\ "format_results" \in Range(trace)
    /\ pq_result.rows = RowsMargins
    /\ \E i \in FormatCalls : llm_calls[i].ok /\ StartsWith(pq_response.text, Strip(llm_calls[i].text))

\* how often a stage occurs in the trace of the request
Times(stage) == Cardinality({i \in DOMAIN trace : trace[i] = stage})

CallsFor(purpose) == Cardinality({i \in DOMAIN llm_calls : llm_calls[i].purpose = purpose})

\* the response reports an error or a refusal
ErrorResponse == StartsWith(pq_response.text, "(x)") \/ StartsWith(pq_response.text, "(no)")

\* none of the stages ran in the request
NoneRan(stages) == Range(trace) \cap stages = {}

\* each call of the request is made at most once
C27_EachCallAtMostOnce ==
    /\ CallsFor("sql") <= 1
    /\ CallsFor("format") <= 1
    /\ Times("generate_sql") <= 1
    /\ Times("execute_query") <= 1
    /\ Times("format_results") <= 1

\* a request whose synthesis or validation failed ends with an error response
\* and without a later stage
C27_SynthesisOrValidationFailureEnds ==
    pc = "done" =>
        /\ ("generate_sql" \in Range(trace) /\ (~pq_sql_query.bound \/ pq_sql_query.none))
           => /\ ErrorResponse
              /\ NoneRan({"is_safe_query:accept", "is_safe_query:reject", "execute_query",
                          "format_results"})
        /\ "is_safe_query:reject" \in Range(trace)
           => ErrorResponse /\ NoneRan({"execute_query", "format_results"})

\* C27: within one process_query call no stage is retried (the synthesis
\* call, the executor call and the formatting call are each made at most
\* once), and a failure of synthesis, validation or execution ends the
\* request with an error response without any later stage running
C27_NoRetryAndFailureEndsTheRequest ==
    /\ C27_EachCallAtMostOnce
    /\ C27_SynthesisOrValidationFailureEnds
    /\ (pc = "done" /\ "execute_query" \in Range(trace) /\ pq_result.none)
       => ErrorResponse /\ NoneRan({"format_results"})

C27_Witness ==
    /\ pc = "done"
    /\ Times("execute_query") = 1
    /\ pq_result.none
    /\ Times("format_results") = 1
    /\ ~ErrorResponse

\* process_query has ended on a question that contains a quick_map phrase
EndedOnQuickMapQuestion == pc = "done" /\ AnyIn(quick_map, Lower(pq_message))

\* C28: for a question containing a quick_map phrase _generate_sql returns
\* the statement of the mapped simple query without raising, and the
\* question is answered from it and executed rather than ending in an error
C28_QuickMapQuestionIsAnswered ==
    EndedOnQuickMapQuestion =>
        /\ "except" \notin Range(trace)
        /\ pq_sql_query.bound /\ ~pq_sql_query.none
        /\ StartsSelect(pq_sql_query.text)
        /\ "execute_query" \in Range(trace)
        /\ ~StartsWith(pq_response.text, "(x)")

C28_Witness ==
    /\ EndedOnQuickMapQuestion
    /\ pq_message = "show me returns today"
    /\ trace = <<"extract_date_context", "generate_sql", "except">>
    /\ ~pq_sql_query.bound
    /\ pq_response.text = "(x) Error processing query: " \o GetSimpleQueryError \o "\n\n"

\* C29: every phrase listed in the Date Context Extractor is effective: the
\* question that consists of the phrase yields the phrase's own label; in
\* particular 'last year trend' yields 'Last 12 Months' and is not captured
\* by the earlier 'last year' check
C29_EveryDatePhraseIsEffective ==
    rq_stage = "resolved" =>
        \A k \in DOMAIN DatePhraseOrder : \A p \in DatePhraseOrder[k].phrases :
            Lower(rq_question) = p => rq_date_context.label = DatePhraseOrder[k].label

C29_Witness ==
    /\ rq_stage = "resolved"
    /\ rq_question = "last year trend"
    /\ rq_date_context.label = "Last Year"
    /\ Contains("INTERVAL 1 YEAR", rq_date_context.filter)

\* process_query has ended on a comparison block
ComparisonShown == EndedOnComparison /\ "except" \notin Range(trace)

Difference(row) == ThisPeriod(row) - LastPeriod(row)

\* the percentage the insight sentence reports is 0.0
InsightReportsZero ==
    \/ Contains("Sales increased by 0.0%", pq_response.text)
    \/ Contains("Sales decreased by 0.0%", pq_response.text)

\* the insight sentence or the change line contradicts the direction
ContradictsDirection(difference) ==
    \/ Contains("Sales increased by -", pq_response.text)
    \/ Contains("Sales decreased by -", pq_response.text)
    \/ difference > 0 /\ (~Contains("Sales increased by ", pq_response.text)
                          \/ Contains("**Change:** -", pq_response.text))
    \/ difference < 0 /\ (~Contains("Sales decreased by ", pq_response.text)
                          \/ Contains("**Change:** +", pq_response.text))

=============================================================================
